---- MODULE Spec2Model ----
(***************************************************************************)
(* A model of the build-execution core of concourse/turbine.               *)
(*                                                                         *)
(* builder.Start, builder.Attach and builder.Complete                      *)
(* (src/builder/builder.go) are modelled statement by statement for one    *)
(* build; the warden client, the resource tracker, the resources and the   *)
(* build process are the environment, and each of their calls may succeed  *)
(* or fail.  parallelPerformer.PerformOutputs (src/unnamed/part_000) is    *)
(* modelled as a second entry point over the same tracker.                 *)
(***************************************************************************)
EXTENDS Integers, Sequences, FiniteSets, TLC

\* ------------------------------------------------------------------ bounds

\* The longest list of inputs and of outputs a submitted build carries.
MaxInputs == 2
MaxOutputs == 2
\* The build process exits with a status in 0..MaxStatus.
MaxStatus == 2

\* ------------------------------------------------------------- data model

\* Names of inputs and outputs.  Within build.Inputs, and within
\* build.Outputs, a name occurs once; an input and an output may share one.
Names == {"a", "b"}

NoVersion == "none"
NoMetadata == "none"
SubmittedVersion == "v0"

\* What the in script of a resource answers: the version and the metadata.
InResponses ==
    { [version |-> "v1", metadata |-> "m1"],
      [version |-> "v2", metadata |-> "m2"] }

\* What the out script of a resource answers.
OutResponses ==
    { [version |-> "w1", metadata |-> "n1"],
      [version |-> "w2", metadata |-> "n2"] }

OnSets == { {"success"}, {"failure"}, {"success", "failure"} }

\* A submitted input: no version and no metadata yet.
SubmittedInput(n) ==
    [name |-> n, type |-> "git", source |-> "in-source", params |-> "in-params",
     version |-> NoVersion, metadata |-> NoMetadata]

\* A submitted output, performed under the conditions on.
SubmittedOutput(n, on) ==
    [name |-> n, type |-> "s3", source |-> "out-source", params |-> "out-params",
     on |-> on, version |-> SubmittedVersion, metadata |-> NoMetadata]

\* The zero value of builds.Output, as Out returns it beside an error.
ZeroOutput ==
    [name |-> "", type |-> "", source |-> "", params |-> "",
     on |-> {}, version |-> NoVersion, metadata |-> NoMetadata]

Range(s) == { s[i] : i \in DOMAIN s }

\* The sequences over S of length at most n in which no element repeats.
DistinctSeqs(S, n) ==
    UNION { { s \in [1..k -> S] : \A j, l \in 1..k : j # l => s[j] # s[l] } :
            k \in 0..n }

InputLists ==
    { [k \in DOMAIN ns |-> SubmittedInput(ns[k])] :
        ns \in DistinctSeqs(Names, MaxInputs) }

OutputLists ==
    UNION { { [k \in DOMAIN ns |-> SubmittedOutput(ns[k], ons[k])] :
                ons \in [DOMAIN ns -> OnSets] } :
            ns \in DistinctSeqs(Names, MaxOutputs) }

\* builds.Config, as far as Start reads it: the image, the params and the
\* names of the explicit inputs.  Params maps names to values.
Params(keys, value) == [k \in keys |-> value]
NoParams == Params({}, "")

\* The zero value of builds.Config: what resource.In returns for an input
\* that carries no build configuration.
ZeroConfig == [image |-> "", params |-> NoParams, inputs |-> {}]

\* A build configuration that names an image.
SomeConfig == [image |-> "some-rootfs", params |-> Params({"FOO"}, "bar"), inputs |-> {}]

\* The configurations a build is submitted with.
BuildConfigs ==
    [image : {"", "some-rootfs"},
     params : {NoParams, Params({"FOO"}, "bar")},
     inputs : {{}, {"a"}}]

\* What an input is fetched from: a source without a build configuration,
\* or one with a configuration in it.
Sources == {"in-source", "image-source", "params-source", "inputs-source", "bogus-source"}

\* The configuration resource.In finds in what it fetched from source.
SourceConfig(source) ==
    CASE source = "image-source" ->
            [image |-> "build-config-image", params |-> NoParams, inputs |-> {}]
      [] source = "params-source" ->
            [image |-> "", params |-> Params({"FOO", "CONFIG_ONLY"}, "build-config"),
             inputs |-> {}]
      [] source = "inputs-source" ->
            [image |-> "build-config-image", params |-> Params({"CONFIG_ONLY"}, "build-config"),
             inputs |-> {"b"}]
      [] source = "bogus-source" ->
            [image |-> "", params |-> NoParams, inputs |-> {"some-bogus-input"}]
      [] OTHER -> ZeroConfig

\* The lists of inputs of a build whose inputs may carry configurations.
ConfigInputLists ==
    UNION { { [k \in DOMAIN ns |-> [SubmittedInput(ns[k]) EXCEPT !.source = srcs[k]]] :
                srcs \in [DOMAIN ns -> Sources] } :
            ns \in DistinctSeqs(Names, MaxInputs) }

\* The permutations of a finite set, as sequences: the orders in which a Go
\* map may be iterated.
Orders(S) == { s \in [1..Cardinality(S) -> S] : Range(s) = S }

\* Errors: a message and, for the failure of one output, the output's name.
Err(msg, of) == [msg |-> msg, of |-> of]
ErrAborted == Err("build aborted", "")
ErrNoImageSpecified == Err("no image specified", "")
UnsatisfiedInputError(name) == Err("unsatisfied input", name)
NoError == Err("nil", "")

\* ------------------------------------------------------------------ state

VARIABLES
    submitted,      \* the build as it was handed to Start (never changes)
    build,          \* the build value the current phase works on
    pc,             \* where the calling task is
    i,              \* Start: the index of the input being fetched
    abort,          \* TRUE once the abort channel is closed
    events,         \* the events handed to emitter.EmitEvent, in order
    closes,         \* how many times emitter.Close has been called
    container,      \* the build container: created, and its Stop calls
    resources,      \* tracker: per resource, its type, owner and Release calls
    deferred,       \* Start: the resources whose Release is deferred
    tarStreams,     \* Start: the names with a tar stream (the map resources)
    streamed,       \* Start: the names already streamed in to the container
    running,        \* RunningBuild: which live handles it carries
    proc,           \* the build process
    waiter,         \* the task that waitForRunToEnd spawns
    statusCh,       \* waitForRunToEnd: statusCh (capacity 1)
    errCh,          \* waitForRunToEnd: errCh (capacity 1)
    ret,            \* what the last phase returned
    allOutputs,     \* performOutputs: the map from name to output
    tasks,          \* the per-output tasks: whose, position, output, resource
    errs,           \* performOutputs: the channel errs
    results,        \* performOutputs: the channel results
    outputErr,      \* the collector's outputErr
    received,       \* the collector's loop counter
    errResults,     \* PerformOutputs: the channel errResults
    resultingOutputs, \* PerformOutputs: the slice resultingOutputs
    \* websocketEmitter and its consumer
    conn,           \* e.conn: 0 for nil, else the connection
    connL,          \* e.connL: "free", else the producer holding it
    conns,          \* the connections dialed so far: open, broken or closed
    epc,            \* per producer, where its EmitEvent call is
    todo,           \* per producer, how many events it has to emit
    calls,          \* per producer, how many EmitEvent calls it has made
    emitRet,        \* per producer, what its EmitEvent calls returned
    writing,        \* per producer, the connection its WriteJSON is writing on
    overlap,        \* per producer, whether that write met another one
    wire,           \* what the consumer has read, in order
    failures,       \* how many times the consumer has failed the emitter
    crashed,        \* TRUE once a task has panicked
    failedOn,       \* per producer, the connection its last write failed on
    \* the log writer
    origin,         \* the Origin bound at construction
    pending,        \* the bytes the process has still to write
    written,        \* the bytes written so far
    nwrites,        \* how many Write calls have returned
    dangling,       \* the bytes the writer holds back
    logs,           \* the Log events the writer has emitted, in order
    wstate,         \* open or closed
    \* Message
    message,        \* the Message to encode
    envelope,       \* what MarshalJSON returned
    decoded,        \* what UnmarshalJSON made of it
    mpc,            \* where the round trip is
    \* a resource and its out script
    outArg,         \* the output handed to resource.Out
    rpc,            \* where the call of Out is
    rabort,         \* TRUE once the resource's abort channel is closed
    script,         \* the script process in the resource's container
    rwaiter,        \* the task that waits on the script, and what it sent
    rstops,         \* the Stop calls on the resource's container
    outRet,         \* what Out returned
    \* Hijack
    hijackArg,      \* the handle, the spec and the IO handed to Hijack
    handles,        \* the handles of the containers the warden server has
    hpc,            \* where the call of Hijack is
    ranCalls,       \* the Run calls the warden server has received
    hijackRet       \* what Hijack returned

buildVars == << submitted, build, pc, i, abort, events, closes, container,
               resources, deferred, tarStreams, streamed, running, proc, waiter,
               statusCh, errCh, ret, allOutputs, tasks, errs, results, outputErr,
               received, errResults, resultingOutputs >>

emitterVars == << conn, connL, conns, epc, todo, calls, emitRet, writing, overlap,
                 wire, failures, crashed, failedOn >>
writerVars == << origin, pending, written, nwrites, dangling, logs, wstate >>
messageVars == << message, envelope, decoded, mpc >>
resourceVars == << outArg, rpc, rabort, script, rwaiter, rstops, outRet >>
hijackVars == << hijackArg, handles, hpc, ranCalls, hijackRet >>

\* The state of package event, of a resource and of Hijack.
eventVars == << emitterVars, writerVars, messageVars, resourceVars, hijackVars >>

vars == << buildVars, eventVars >>

startVars == << i, deferred, tarStreams, streamed >>
waitVars == << proc, waiter, statusCh, errCh >>
outputVars == << allOutputs, tasks, errs, results, outputErr, received >>
performerVars == << errResults, resultingOutputs >>

\* What a phase returns.  err is the error of the call; exitErr is the second
\* value of Attach ("exit status N"); outputs are the Outputs of the build
\* that Complete returns.
NoRet ==
    [phase |-> "none", err |-> NoError, exitErr |-> FALSE, status |-> 0,
     outputs |-> << >>]

\* The state in which a build is handed to Start.
InitBuilder ==
    /\ submitted \in [Inputs : InputLists, Outputs : OutputLists, Config : {SomeConfig}]
    /\ pc = "Start"
    /\ container = [created |-> FALSE, rootfs |-> "", stops |-> << >>]

\* The state in which a list of outputs and the container of an exited build
\* are handed to PerformOutputs.
InitPerformer ==
    /\ submitted \in [Inputs : {<< >>}, Outputs : OutputLists, Config : {SomeConfig}]
    /\ pc = "PerformOutputs"
    /\ container = [created |-> TRUE, rootfs |-> SomeConfig.image, stops |-> << >>]

\* What every phase of a build starts from.
BuilderFresh ==
    /\ build = submitted
    /\ i = 1
    /\ abort = FALSE
    /\ events = << >>
    /\ closes = 0
    /\ resources = << >>
    /\ deferred = << >>
    /\ tarStreams = {}
    /\ streamed = {}
    /\ running = [Container |-> FALSE, Process |-> FALSE]
    /\ proc = [state |-> "none", status |-> 0, afterStop |-> FALSE]
    /\ waiter = "none"
    /\ statusCh = << >>
    /\ errCh = << >>
    /\ ret = NoRet
    /\ allOutputs = << >>
    /\ tasks = << >>
    /\ errs = << >>
    /\ results = << >>
    /\ outputErr = NoError
    /\ received = 0
    /\ errResults = << >>
    /\ resultingOutputs = << >>

\* No build is being run.
BuildIdle ==
    /\ submitted = [Inputs |-> << >>, Outputs |-> << >>, Config |-> ZeroConfig]
    /\ pc = "Idle"
    /\ container = [created |-> FALSE, rootfs |-> "", stops |-> << >>]
    /\ BuilderFresh

\* emitterProcessIO: the two log writers of a build's process share its
\* emitter.
Producers == {"stdout", "stderr"}

\* NewWebSocketEmitter: no connection yet, the lock free.
NewWebSocketEmitter ==
    /\ conn = 0
    /\ connL = "free"
    /\ conns = << >>
    /\ epc = [p \in Producers |-> "idle"]
    /\ calls = [p \in Producers |-> 0]
    /\ emitRet = [p \in Producers |-> << >>]
    /\ writing = [p \in Producers |-> 0]
    /\ overlap = [p \in Producers |-> FALSE]
    /\ wire = << >>
    /\ failures = 0
    /\ crashed = FALSE
    /\ failedOn = [p \in Producers |-> 0]

\* An emitter nobody emits on.
EmitterIdle ==
    /\ NewWebSocketEmitter
    /\ todo = [p \in Producers |-> 0]

\* No log writer.
WriterIdle ==
    /\ origin = [type |-> "none", name |-> ""]
    /\ pending = << >>
    /\ written = << >>
    /\ nwrites = 0
    /\ dangling = << >>
    /\ logs = << >>
    /\ wstate = "none"

\* No Message to encode.
MessageIdle ==
    /\ message = "none"
    /\ envelope = "none"
    /\ decoded = "none"
    /\ mpc = "idle"

\* What a call of resource.Out returns.
NoOutRet == [returned |-> FALSE, output |-> ZeroOutput, err |-> NoError]

\* No resource.
ResourceIdle ==
    /\ outArg = ZeroOutput
    /\ rpc = "idle"
    /\ rabort = FALSE
    /\ script = [state |-> "none", status |-> 0, afterStop |-> FALSE,
                 resp |-> [version |-> NoVersion, metadata |-> NoMetadata]]
    /\ rwaiter = "none"
    /\ rstops = << >>
    /\ outRet = NoOutRet

\* What Hijack returns: a process, or an error.
NoProcess == [handle |-> "", spec |-> "", io |-> ""]
NoHijackRet == [returned |-> FALSE, process |-> NoProcess, err |-> NoError]

\* No Hijack.
HijackIdle ==
    /\ hijackArg = NoProcess
    /\ handles = {}
    /\ hpc = "idle"
    /\ ranCalls = << >>
    /\ hijackRet = NoHijackRet

Init ==
    /\ InitBuilder \/ InitPerformer
    /\ BuilderFresh
    /\ EmitterIdle
    /\ WriterIdle
    /\ MessageIdle
    /\ ResourceIdle
    /\ HijackIdle

\* ---------------------------------------------------------------- helpers

\* tracker.Release(r): one more Release call on resource r.
Release(rs, r) == [rs EXCEPT ![r].releases = @ + 1]

\* The deferred tracker.Release calls of Start, run when Start returns.
RECURSIVE ReleaseAll(_, _)
ReleaseAll(rs, ds) ==
    IF ds = << >> THEN rs
    ELSE ReleaseAll(Release(rs, ds[Len(ds)]), SubSeq(ds, 1, Len(ds) - 1))

\* Mutant: an In that hands back the response's version with the name of
\* the resource type in place of the input's name.
ResourceInRenames(input, resp) ==
    [input EXCEPT !.name = input.type, !.version = resp.version,
                  !.metadata = resp.metadata]

\* resource.In on success: the input with the version and the metadata of
\* the script's response.
ResourceIn(input, resp) ==
    [input EXCEPT !.version = resp.version, !.metadata = resp.metadata]

\* Mutant: a Merge in which the input's configuration wins.
MergeInputWins(a, b) ==
    [image |-> IF b.image # "" THEN b.image ELSE a.image,
     params |-> [k \in DOMAIN a.params \cup DOMAIN b.params |->
                    IF k \in DOMAIN b.params THEN b.params[k] ELSE a.params[k]],
     inputs |-> IF b.inputs # {} THEN b.inputs ELSE a.inputs]

\* a.Merge(b): the fields of a that are set, the fields of b where a has
\* none, and the union of the params in which a key of a keeps a's value.
Merge(a, b) ==
    [image |-> IF a.image # "" THEN a.image ELSE b.image,
     params |-> [k \in DOMAIN a.params \cup DOMAIN b.params |->
                    IF k \in DOMAIN a.params THEN a.params[k] ELSE b.params[k]],
     inputs |-> IF a.inputs # {} THEN a.inputs ELSE b.inputs]

\* Mutant: Out hands back the version and the metadata of the output where
\* the response has none.
ResourceOutFillsIn(output, resp) ==
    [output EXCEPT
        !.version = IF resp.version = NoVersion THEN output.version ELSE resp.version,
        !.metadata = IF resp.metadata = NoMetadata THEN output.metadata
                     ELSE resp.metadata]

\* resource.Out on success: the output with the version and the metadata of
\* the script's response.
ResourceOut(output, resp) ==
    [output EXCEPT !.version = resp.version, !.metadata = resp.metadata]

\* The implicit output of an input: Params and On are left at their zero
\* values.
ImplicitOutput(input) ==
    [name |-> input.name, type |-> input.type, source |-> input.source,
     params |-> "", on |-> {}, version |-> input.version,
     metadata |-> input.metadata]

\* Mutant: performOutputs without the implicit outputs.
NoImplicitOutputs(inputs) == << >>

\* allOutputs after the loop over build.Inputs.
ImplicitOutputs(inputs) ==
    [n \in { inputs[k].name : k \in DOMAIN inputs } |->
        ImplicitOutput(inputs[CHOOSE k \in DOMAIN inputs : inputs[k].name = n])]

\* Mutant: a result does not replace the implicit output of its name.
MapPutIfAbsent(all, output) ==
    [n \in DOMAIN all \cup {output.name} |->
        IF n \in DOMAIN all THEN all[n] ELSE output]

\* allOutputs[output.Name] = output.
MapPut(all, output) ==
    [n \in DOMAIN all \cup {output.name} |->
        IF n = output.name THEN output ELSE all[n]]

\* Mutant: the version of the same-named input is not copied.
KeepSubmittedVersion(all, output) == output

\* The first statements of a per-output task of performOutputs: an output
\* that allOutputs holds under its name takes the version found there.
WithInputVersion(all, output) ==
    IF output.name \in DOMAIN all
    THEN [output EXCEPT !.version = all[output.name].version]
    ELSE output

\* The outputs performOutputs returns: the values of allOutputs, in the order
\* the map iteration yields them.
OutputsOf(all) == { [k \in DOMAIN o |-> all[o[k]]] : o \in Orders(DOMAIN all) }

\* Mutant: an error return of Start that skips the releases.
StartFailsNoRelease(err) ==
    /\ closes' = closes + 1
    /\ UNCHANGED << resources, deferred >>
    /\ ret' = [NoRet EXCEPT !.phase = "Start", !.err = err]
    /\ pc' = "Done"

\* Start returns err: emitter.Close(), then the deferred releases.
StartFails(err) ==
    /\ closes' = closes + 1
    /\ resources' = ReleaseAll(resources, deferred)
    /\ deferred' = << >>
    /\ ret' = [NoRet EXCEPT !.phase = "Start", !.err = err]
    /\ pc' = "Done"

\* ------------------------------------------------------------------ Start

\* tracker.Init for build.Inputs[i].
StartInit ==
    /\ pc = "Start"
    /\ i <= Len(build.Inputs)
    /\ \E ok \in BOOLEAN :
        IF ok
        THEN /\ resources' = Append(resources,
                    [type |-> build.Inputs[i].type, owner |-> "input", releases |-> 0])
             /\ deferred' = Append(deferred, Len(resources) + 1)
             /\ pc' = "StartIn"
             /\ UNCHANGED << closes, ret >>
        ELSE StartFails(Err("init failed", ""))
    /\ UNCHANGED << eventVars,
                    submitted, build, i, abort, events, container, tarStreams,
                    streamed, running, waitVars, outputVars, performerVars >>

\* The errors resource.In fails with: the failure of its script, or, once
\* the abort channel is closed, ErrAborted.
InErrors == {Err("in failed", "")} \cup (IF abort THEN {ErrAborted} ELSE {})

\* Mutant: every failure of resource.In is returned as ErrAborted.
StartInAlwaysAborted ==
    /\ pc = "StartIn"
    /\ \/ \E resp \in InResponses :
            /\ build' = [build EXCEPT
                    !.Inputs[i] = ResourceIn(build.Inputs[i], resp),
                    !.Config = Merge(build.Config, SourceConfig(build.Inputs[i].source))]
            /\ tarStreams' = tarStreams \cup {build.Inputs[i].name}
            /\ i' = i + 1
            /\ pc' = "Start"
            /\ UNCHANGED << closes, resources, deferred, ret >>
       \/ /\ StartFails(ErrAborted)
          /\ UNCHANGED << build, tarStreams, i >>
    /\ UNCHANGED << eventVars,
                    submitted, abort, events, container, streamed, running,
                    waitVars, outputVars, performerVars >>

\* resource.In for build.Inputs[i], and the merge of the configuration it
\* returns into build.Config.
StartIn ==
    /\ pc = "StartIn"
    /\ \/ \E resp \in InResponses :
            /\ build' = [build EXCEPT
                    !.Inputs[i] = ResourceIn(build.Inputs[i], resp),
                    !.Config = Merge(build.Config, SourceConfig(build.Inputs[i].source))]
            /\ tarStreams' = tarStreams \cup {build.Inputs[i].name}
            /\ i' = i + 1
            /\ pc' = "Start"
            /\ UNCHANGED << closes, resources, deferred, ret >>
       \/ /\ \E err \in InErrors : StartFails(err)
          /\ UNCHANGED << build, tarStreams, i >>
    /\ UNCHANGED << eventVars,
                    submitted, abort, events, container, streamed, running,
                    waitVars, outputVars, performerVars >>

\* createBuildContainer: the Initialize event, then wardenClient.Create with
\* RootFSPath: buildConfig.Image.
StartCreate ==
    /\ pc = "Start"
    /\ i > Len(build.Inputs)
    /\ events' = Append(events, [type |-> "Initialize"])
    /\ \E ok \in BOOLEAN :
        IF ok
        THEN /\ container' = [container EXCEPT !.created = TRUE,
                                                !.rootfs = build.Config.image]
             /\ pc' = "StartStreamIn"
             /\ UNCHANGED << closes, resources, deferred, ret >>
        ELSE /\ StartFails(Err("create failed", ""))
             /\ UNCHANGED container
    /\ UNCHANGED << eventVars,
                    submitted, build, i, abort, tarStreams, streamed, running,
                    waitVars, outputVars, performerVars >>

\* Mutant: the resources of the inputs are released when the streaming in
\* begins, not when Start returns.
StartStreamInReleasesFirst ==
    /\ pc = "StartStreamIn"
    /\ \E n \in tarStreams \ streamed :
        \E ok \in BOOLEAN :
            IF ok
            THEN /\ streamed' = streamed \cup {n}
                 /\ resources' = ReleaseAll(resources, deferred)
                 /\ deferred' = << >>
                 /\ UNCHANGED << pc, closes, ret >>
            ELSE /\ StartFails(Err("stream in failed", ""))
                 /\ UNCHANGED streamed
    /\ UNCHANGED << eventVars,
                    submitted, build, i, abort, events, container, tarStreams,
                    running, waitVars, outputVars, performerVars >>

\* streamInResources: one container.StreamIn per entry of the map, in the
\* order the map iteration yields them.
StartStreamIn ==
    /\ pc = "StartStreamIn"
    /\ \E n \in tarStreams \ streamed :
        \E ok \in BOOLEAN :
            IF ok
            THEN /\ streamed' = streamed \cup {n}
                 /\ UNCHANGED << pc, closes, resources, deferred, ret >>
            ELSE /\ StartFails(Err("stream in failed", ""))
                 /\ UNCHANGED streamed
    /\ UNCHANGED << eventVars,
                    submitted, build, i, abort, events, container, tarStreams,
                    running, waitVars, outputVars, performerVars >>

\* Mutant: runBuild emits the Initialize event again in place of Start.
StartRunEmitsInitialize ==
    /\ pc = "StartStreamIn"
    /\ streamed = tarStreams
    /\ events' = Append(events, [type |-> "Initialize"])
    /\ \E ok \in BOOLEAN :
        IF ok
        THEN /\ proc' = [proc EXCEPT !.state = "running"]
             /\ running' = [Container |-> TRUE, Process |-> TRUE]
             /\ resources' = ReleaseAll(resources, deferred)
             /\ deferred' = << >>
             /\ ret' = [NoRet EXCEPT !.phase = "Start"]
             /\ pc' = "Started"
             /\ UNCHANGED closes
        ELSE /\ StartFails(Err("run failed", ""))
             /\ UNCHANGED << proc, running >>
    /\ UNCHANGED << eventVars,
                    submitted, build, i, abort, container, tarStreams, streamed,
                    waiter, statusCh, errCh, outputVars, performerVars >>

\* runBuild: the Start event, then container.Run; on success Start returns
\* the RunningBuild, and its deferred releases run.
StartRun ==
    /\ pc = "StartStreamIn"
    /\ streamed = tarStreams
    /\ events' = Append(events, [type |-> "Start"])
    /\ \E ok \in BOOLEAN :
        IF ok
        THEN /\ proc' = [proc EXCEPT !.state = "running"]
             /\ running' = [Container |-> TRUE, Process |-> TRUE]
             /\ resources' = ReleaseAll(resources, deferred)
             /\ deferred' = << >>
             /\ ret' = [NoRet EXCEPT !.phase = "Start"]
             /\ pc' = "Started"
             /\ UNCHANGED closes
        ELSE /\ StartFails(Err("run failed", ""))
             /\ UNCHANGED << proc, running >>
    /\ UNCHANGED << eventVars,
                    submitted, build, i, abort, container, tarStreams, streamed,
                    waiter, statusCh, errCh, outputVars, performerVars >>

\* ----------------------------------------------------------------- Attach

\* Attach returns err: emitter.Close() first.
AttachFails(err) ==
    /\ closes' = closes + 1
    /\ ret' = [NoRet EXCEPT !.phase = "Attach", !.err = err]
    /\ pc' = "Done"

\* The caller hands the RunningBuild to Attach, with its live handles or,
\* on reattachment, without the container or the process.
AttachBegin ==
    /\ pc = "Started"
    /\ running' \in [Container : BOOLEAN, Process : BOOLEAN]
    /\ pc' = "Attach"
    /\ UNCHANGED << eventVars,
                    submitted, build, abort, events, closes, container, resources,
                    startVars, waitVars, ret, outputVars, performerVars >>

\* running.Container == nil: wardenClient.Lookup.
AttachLookup ==
    /\ pc = "Attach"
    /\ ~running.Container
    /\ \E ok \in BOOLEAN :
        IF ok
        THEN /\ running' = [running EXCEPT !.Container = TRUE]
             /\ UNCHANGED << pc, closes, ret >>
        ELSE /\ AttachFails(Err("lookup failed", ""))
             /\ UNCHANGED running
    /\ UNCHANGED << eventVars,
                    submitted, build, abort, events, container, resources,
                    startVars, waitVars, outputVars, performerVars >>

\* running.Process == nil: running.Container.Attach.
AttachProcess ==
    /\ pc = "Attach"
    /\ running.Container
    /\ ~running.Process
    /\ \E ok \in BOOLEAN :
        IF ok
        THEN /\ running' = [running EXCEPT !.Process = TRUE]
             /\ UNCHANGED << pc, closes, ret >>
        ELSE /\ AttachFails(Err("attach failed", ""))
             /\ UNCHANGED running
    /\ UNCHANGED << eventVars,
                    submitted, build, abort, events, container, resources,
                    startVars, waitVars, outputVars, performerVars >>

\* waitForRunToEnd: the channels are made and the waiting task is spawned.
WaitForRunToEnd ==
    /\ pc = "Attach"
    /\ running.Container
    /\ running.Process
    /\ waiter' = "waiting"
    /\ pc' = "AttachSelect"
    /\ UNCHANGED << eventVars,
                    submitted, build, abort, events, closes, container, resources,
                    startVars, running, proc, statusCh, errCh, ret, outputVars,
                    performerVars >>

\* The capacity of statusCh and of errCh: make(chan int, 1), make(chan error, 1).
WaitChanCap == 1

\* Mutant: the channels are unbuffered, so a send needs Attach in its select.
WaiterReturnsUnbuffered ==
    /\ waiter = "waiting"
    /\ proc.state \in {"exited", "failed"}
    /\ pc = "AttachSelect"
    /\ IF proc.state = "failed"
       THEN errCh' = Append(errCh, Err("wait failed", "")) /\ UNCHANGED statusCh
       ELSE statusCh' = Append(statusCh, proc.status) /\ UNCHANGED errCh
    /\ waiter' = "done"
    /\ UNCHANGED << eventVars,
                    submitted, build, pc, abort, events, closes, container,
                    resources, startVars, running, proc, ret, outputVars, performerVars >>

\* The spawned task: running.Process.Wait() returns, and the status or the
\* error is sent on its channel; the send waits while the channel is full.
WaiterReturns ==
    /\ waiter = "waiting"
    /\ proc.state \in {"exited", "failed"}
    /\ IF proc.state = "failed"
       THEN /\ Len(errCh) < WaitChanCap
            /\ errCh' = Append(errCh, Err("wait failed", ""))
            /\ UNCHANGED statusCh
       ELSE /\ Len(statusCh) < WaitChanCap
            /\ statusCh' = Append(statusCh, proc.status)
            /\ UNCHANGED errCh
    /\ waiter' = "done"
    /\ UNCHANGED << eventVars,
                    submitted, build, pc, abort, events, closes, container,
                    resources, startVars, running, proc, ret, outputVars, performerVars >>

\* Mutant: the container is stopped also after the process has exited.
SelectStatusThenStop ==
    /\ pc = "AttachSelect"
    /\ statusCh # << >>
    /\ statusCh' = Tail(statusCh)
    /\ container' = [container EXCEPT !.stops = Append(@, FALSE)]
    /\ ret' = [NoRet EXCEPT !.phase = "Attach", !.status = Head(statusCh),
                            !.exitErr = (Head(statusCh) # 0)]
    /\ pc' = IF Head(statusCh) # 0 THEN "Done" ELSE "Succeeded"
    /\ UNCHANGED << eventVars,
                    submitted, build, abort, events, closes, resources,
                    startVars, running, proc, waiter, errCh, outputVars,
                    performerVars >>

\* select, case status := <-statusCh; then the rest of Attach: a status that
\* is not 0 returns an empty SucceededBuild and "exit status N".
SelectStatus ==
    /\ pc = "AttachSelect"
    /\ statusCh # << >>
    /\ statusCh' = Tail(statusCh)
    /\ ret' = [NoRet EXCEPT !.phase = "Attach", !.status = Head(statusCh),
                            !.exitErr = (Head(statusCh) # 0)]
    /\ pc' = IF Head(statusCh) # 0 THEN "Done" ELSE "Succeeded"
    /\ UNCHANGED << eventVars,
                    submitted, build, abort, events, closes, container, resources,
                    startVars, running, proc, waiter, errCh, outputVars, performerVars >>

\* Mutant: the container is stopped also when the wait has failed.
SelectErrThenStop ==
    /\ pc = "AttachSelect"
    /\ errCh # << >>
    /\ errCh' = Tail(errCh)
    /\ container' = [container EXCEPT !.stops = Append(@, FALSE)]
    /\ AttachFails(Head(errCh))
    /\ UNCHANGED << eventVars,
                    submitted, build, abort, events, resources,
                    startVars, running, proc, waiter, statusCh, outputVars,
                    performerVars >>

\* select, case err := <-errCh.
SelectErr ==
    /\ pc = "AttachSelect"
    /\ errCh # << >>
    /\ errCh' = Tail(errCh)
    /\ AttachFails(Head(errCh))
    /\ UNCHANGED << eventVars,
                    submitted, build, abort, events, container, resources,
                    startVars, running, proc, waiter, statusCh, outputVars,
                    performerVars >>

\* Mutant: the abort case returns ErrAborted without stopping the container.
SelectAbortNoStop ==
    /\ pc = "AttachSelect"
    /\ abort
    /\ AttachFails(ErrAborted)
    /\ UNCHANGED << eventVars,
                    submitted, build, abort, events, container, resources,
                    startVars, running, waitVars, outputVars, performerVars >>

\* select, case <-abort: running.Container.Stop(false), ErrAborted.
SelectAbort ==
    /\ pc = "AttachSelect"
    /\ abort
    /\ container' = [container EXCEPT !.stops = Append(@, FALSE)]
    /\ AttachFails(ErrAborted)
    /\ UNCHANGED << eventVars,
                    submitted, build, abort, events, resources, startVars,
                    running, waitVars, outputVars, performerVars >>

\* --------------------------------------------------------------- Complete

\* Complete returns: the deferred emitter.Close() runs.
CompleteReturns(err, outputs) ==
    /\ closes' = closes + 1
    /\ ret' = [NoRet EXCEPT !.phase = "Complete", !.err = err, !.outputs = outputs]
    /\ pc' = "Done"

\* Mutant: channels with room for one value less.
ChanCapShort == Len(build.Outputs) - 1

\* The capacity of errs, of results and of errResults: len(build.Outputs).
\* A send waits while its channel is full.
ChanCap == Len(build.Outputs)

\* Complete calls performOutputs: allOutputs takes the implicit outputs and
\* one task per build output is spawned; with no outputs performOutputs
\* returns the implicit outputs at once.
PerformOutputs ==
    /\ pc = "Succeeded"
    /\ allOutputs' = ImplicitOutputs(build.Inputs)
    /\ IF Len(build.Outputs) > 0
       THEN /\ tasks' = [k \in DOMAIN build.Outputs |->
                          [of |-> "builder", pc |-> "StreamOut",
                           output |-> build.Outputs[k], resource |-> 0,
                           computed |-> ZeroOutput]]
            /\ pc' = "CollectErrs"
            /\ UNCHANGED << closes, ret >>
       ELSE /\ \E outputs \in OutputsOf(allOutputs') :
                CompleteReturns(NoError, outputs)
            /\ UNCHANGED tasks
    /\ UNCHANGED << eventVars,
                    submitted, build, abort, events, container, resources,
                    startVars, running, waitVars, errs, results, outputErr,
                    received,
                    performerVars >>

\* A per-output task: the version of a same-named input, then
\* container.StreamOut.
TaskStreamOut(k) ==
    /\ tasks[k].of = "builder"
    /\ tasks[k].pc = "StreamOut"
    /\ \E ok \in BOOLEAN :
        IF ok
        THEN /\ tasks' = [tasks EXCEPT ![k].pc = "Init",
                             ![k].output = WithInputVersion(allOutputs, @)]
             /\ UNCHANGED errs
        ELSE /\ Len(errs) < ChanCap
             /\ tasks' = [tasks EXCEPT ![k].pc = "done",
                             ![k].output = WithInputVersion(allOutputs, @)]
             /\ errs' = Append(errs, Err("stream out failed", tasks[k].output.name))
    /\ UNCHANGED << eventVars,
                    submitted, build, pc, abort, events, closes, container,
                    resources, startVars, running, waitVars, ret, allOutputs,
                    results, outputErr, received,
                    performerVars >>

\* A per-output task: tracker.Init, and the deferral of tracker.Release.
TaskInit(k) ==
    /\ tasks[k].of = "builder"
    /\ tasks[k].pc = "Init"
    /\ \E ok \in BOOLEAN :
        IF ok
        THEN /\ resources' = Append(resources,
                    [type |-> tasks[k].output.type, owner |-> "output", releases |-> 0])
             /\ tasks' = [tasks EXCEPT ![k].pc = "Out", ![k].resource = Len(resources) + 1]
             /\ UNCHANGED errs
        ELSE /\ Len(errs) < ChanCap
             /\ tasks' = [tasks EXCEPT ![k].pc = "done"]
             /\ errs' = Append(errs, Err("init failed", tasks[k].output.name))
             /\ UNCHANGED resources
    /\ UNCHANGED << eventVars,
                    submitted, build, pc, abort, events, closes, container,
                    startVars, running, waitVars, ret, allOutputs, results,
                    outputErr, received,
                    performerVars >>

\* A per-output task: resource.Out, then errs <- err.
TaskOut(k) ==
    /\ tasks[k].of = "builder"
    /\ tasks[k].pc = "Out"
    /\ Len(errs) < ChanCap
    /\ \/ \E resp \in OutResponses :
            /\ tasks' = [tasks EXCEPT ![k].pc = "Result",
                            ![k].computed = ResourceOut(tasks[k].output, resp)]
            /\ errs' = Append(errs, NoError)
       \/ /\ tasks' = [tasks EXCEPT ![k].pc = "Result", ![k].computed = ZeroOutput]
          /\ errs' = Append(errs, Err("out failed", tasks[k].output.name))
    /\ UNCHANGED << eventVars,
                    submitted, build, pc, abort, events, closes, container,
                    resources, startVars, running, waitVars, ret, allOutputs,
                    results, outputErr, received,
                    performerVars >>

\* A per-output task: results <- computedOutput, and the task returns: its
\* deferred tracker.Release runs.
TaskResult(k) ==
    /\ tasks[k].of = "builder"
    /\ tasks[k].pc = "Result"
    /\ Len(results) < ChanCap
    /\ results' = Append(results, tasks[k].computed)
    /\ resources' = Release(resources, tasks[k].resource)
    /\ tasks' = [tasks EXCEPT ![k].pc = "done"]
    /\ UNCHANGED << eventVars,
                    submitted, build, pc, abort, events, closes, container,
                    startVars, running, waitVars, ret, allOutputs, errs,
                    outputErr, received,
                    performerVars >>

\* Mutant: outputErr = err for every err received, also a nil one.
CollectErrLastWins ==
    /\ pc = "CollectErrs"
    /\ errs # << >>
    /\ errs' = Tail(errs)
    /\ LET e == Head(errs)
       IN  /\ outputErr' = e
           /\ IF received + 1 < Len(build.Outputs)
              THEN /\ received' = received + 1
                   /\ UNCHANGED << pc, closes, ret >>
              ELSE /\ received' = 0
                   /\ IF e # NoError
                      THEN CompleteReturns(e, << >>)
                      ELSE pc' = "CollectResults" /\ UNCHANGED << closes, ret >>
    /\ UNCHANGED << eventVars,
                    submitted, build, abort, events, container, resources,
                    startVars, running, waitVars, allOutputs, tasks, results,
                    performerVars >>

\* The collector: err := <-errs.  After the last one, an outputErr makes
\* performOutputs return it, and Complete returns an empty build with it.
CollectErr ==
    /\ pc = "CollectErrs"
    /\ errs # << >>
    /\ errs' = Tail(errs)
    /\ LET e == IF Head(errs) # NoError THEN Head(errs) ELSE outputErr
       IN  /\ outputErr' = e
           /\ IF received + 1 < Len(build.Outputs)
              THEN /\ received' = received + 1
                   /\ UNCHANGED << pc, closes, ret >>
              ELSE /\ received' = 0
                   /\ IF e # NoError
                      THEN CompleteReturns(e, << >>)
                      ELSE pc' = "CollectResults" /\ UNCHANGED << closes, ret >>
    /\ UNCHANGED << eventVars,
                    submitted, build, abort, events, container, resources,
                    startVars, running, waitVars, allOutputs, tasks, results,
                    performerVars >>

\* The collector: output := <-results; allOutputs[output.Name] = output.
\* After the last one the values of allOutputs are returned, and Complete
\* returns the build with them as its Outputs.
CollectResult ==
    /\ pc = "CollectResults"
    /\ results # << >>
    /\ results' = Tail(results)
    /\ allOutputs' = MapPut(allOutputs, Head(results))
    /\ IF received + 1 < Len(build.Outputs)
       THEN /\ received' = received + 1
            /\ UNCHANGED << pc, closes, ret >>
       ELSE /\ received' = 0
            /\ \E outputs \in OutputsOf(allOutputs') :
                CompleteReturns(NoError, outputs)
    /\ UNCHANGED << eventVars,
                    submitted, build, abort, events, container, resources,
                    startVars, running, waitVars, tasks, errs, outputErr,
                    performerVars >>

\* ------------------------------------------ parallelPerformer.PerformOutputs

\* PerformOutputs returns.
PerformerReturns(err, outputs) ==
    /\ ret' = [NoRet EXCEPT !.phase = "PerformOutputs", !.err = err, !.outputs = outputs]
    /\ pc' = "Done"

\* PerformOutputs is called: resultingOutputs and errResults are made and one
\* task per output is spawned; with no outputs it returns at once.
PerformerBegin ==
    /\ pc = "PerformOutputs"
    /\ resultingOutputs' = [k \in DOMAIN build.Outputs |-> ZeroOutput]
    /\ tasks' = [k \in DOMAIN build.Outputs |->
                  [of |-> "parallelPerformer", pc |-> "StreamOut",
                   output |-> build.Outputs[k], resource |-> 0,
                   computed |-> ZeroOutput]]
    /\ IF Len(build.Outputs) > 0
       THEN pc' = "PerformerCollect" /\ UNCHANGED ret
       ELSE PerformerReturns(NoError, << >>)
    /\ UNCHANGED << eventVars,
                    submitted, build, abort, events, closes, container, resources,
                    startVars, running, waitVars, allOutputs, errs, results,
                    outputErr, received, errResults >>

\* A per-output task: container.StreamOut.
PerformerStreamOut(k) ==
    /\ tasks[k].of = "parallelPerformer"
    /\ tasks[k].pc = "StreamOut"
    /\ \E ok \in BOOLEAN :
        IF ok
        THEN /\ tasks' = [tasks EXCEPT ![k].pc = "Init"]
             /\ UNCHANGED errResults
        ELSE /\ Len(errResults) < ChanCap
             /\ tasks' = [tasks EXCEPT ![k].pc = "done"]
             /\ errResults' = Append(errResults,
                    Err("stream out failed", tasks[k].output.name))
    /\ UNCHANGED << eventVars,
                    submitted, build, pc, abort, events, closes, container,
                    resources, startVars, running, waitVars, ret, allOutputs,
                    errs, results, outputErr, received, resultingOutputs >>

\* A per-output task: tracker.Init, and the deferral of tracker.Release.
PerformerInit(k) ==
    /\ tasks[k].of = "parallelPerformer"
    /\ tasks[k].pc = "Init"
    /\ \E ok \in BOOLEAN :
        IF ok
        THEN /\ resources' = Append(resources,
                    [type |-> tasks[k].output.type, owner |-> "output", releases |-> 0])
             /\ tasks' = [tasks EXCEPT ![k].pc = "Out", ![k].resource = Len(resources) + 1]
             /\ UNCHANGED errResults
        ELSE /\ Len(errResults) < ChanCap
             /\ tasks' = [tasks EXCEPT ![k].pc = "done"]
             /\ errResults' = Append(errResults, Err("init failed", tasks[k].output.name))
             /\ UNCHANGED resources
    /\ UNCHANGED << eventVars,
                    submitted, build, pc, abort, events, closes, container,
                    startVars, running, waitVars, ret, allOutputs, errs, results,
                    outputErr, received, resultingOutputs >>

\* A per-output task: resource.Out; on an error the Error event and
\* errResults <- err; else the Output event, resultingOutputs[i] and
\* errResults <- nil.
PerformerOut(k) ==
    /\ tasks[k].of = "parallelPerformer"
    /\ tasks[k].pc = "Out"
    /\ Len(errResults) < ChanCap
    /\ \/ \E resp \in OutResponses :
            LET computedOutput == ResourceOut(tasks[k].output, resp)
            IN  /\ events' = Append(events, [type |-> "Output", output |-> computedOutput])
                /\ resultingOutputs' = [resultingOutputs EXCEPT ![k] = computedOutput]
                /\ tasks' = [tasks EXCEPT ![k].pc = "Release", ![k].computed = computedOutput]
                /\ errResults' = Append(errResults, NoError)
       \/ /\ events' = Append(events,
                [type |-> "Error", of |-> tasks[k].output.name,
                 message |-> "output failed: out failed"])
          /\ tasks' = [tasks EXCEPT ![k].pc = "Release"]
          /\ errResults' = Append(errResults, Err("out failed", tasks[k].output.name))
          /\ UNCHANGED resultingOutputs
    /\ UNCHANGED << eventVars,
                    submitted, build, pc, abort, closes, container, resources,
                    startVars, running, waitVars, ret, allOutputs, errs, results,
                    outputErr, received >>

\* A per-output task returns: its deferred tracker.Release runs.
PerformerRelease(k) ==
    /\ tasks[k].of = "parallelPerformer"
    /\ tasks[k].pc = "Release"
    /\ resources' = Release(resources, tasks[k].resource)
    /\ tasks' = [tasks EXCEPT ![k].pc = "done"]
    /\ UNCHANGED << eventVars,
                    submitted, build, pc, abort, events, closes, container,
                    startVars, running, waitVars, ret, allOutputs, errs, results,
                    outputErr, received, performerVars >>

\* The collector: err := <-errResults.  After the last one PerformOutputs
\* returns outputErr, or resultingOutputs.
PerformerCollect ==
    /\ pc = "PerformerCollect"
    /\ errResults # << >>
    /\ errResults' = Tail(errResults)
    /\ LET e == IF Head(errResults) # NoError THEN Head(errResults) ELSE outputErr
       IN  /\ outputErr' = e
           /\ IF received + 1 < Len(build.Outputs)
              THEN /\ received' = received + 1
                   /\ UNCHANGED << pc, ret >>
              ELSE /\ received' = 0
                   /\ IF e # NoError
                      THEN PerformerReturns(e, << >>)
                      ELSE PerformerReturns(NoError, resultingOutputs)
    /\ UNCHANGED << eventVars,
                    submitted, build, abort, events, closes, container, resources,
                    startVars, running, waitVars, allOutputs, tasks, errs, results,
                    resultingOutputs >>

\* ------------------------------------------------------------ environment

\* The abort channel is closed.  Start and Attach can see it; once Attach
\* has returned the channel is only handed on to tracker.Init, whose outcome
\* is a free choice in any case.
Abort ==
    /\ ~abort
    /\ pc \in {"Start", "StartIn", "StartStreamIn", "Started", "Attach", "AttachSelect"}
    /\ abort' = TRUE
    /\ UNCHANGED << eventVars,
                    submitted, build, pc, i, events, closes, container, resources,
                    deferred, tarStreams, streamed, running, waitVars, ret,
                    outputVars, performerVars >>

\* The build process exits with status s.
ProcExit ==
    /\ proc.state = "running"
    /\ \E s \in 0..MaxStatus :
        proc' = [state |-> "exited", status |-> s, afterStop |-> container.stops # << >>]
    /\ UNCHANGED << eventVars,
                    submitted, build, pc, abort, events, closes, container,
                    resources, startVars, running, waiter, statusCh, errCh, ret,
                    outputVars, performerVars >>

\* The wait on the build process fails.
ProcFail ==
    /\ proc.state = "running"
    /\ proc' = [state |-> "failed", status |-> 0, afterStop |-> container.stops # << >>]
    /\ UNCHANGED << eventVars,
                    submitted, build, pc, abort, events, closes, container,
                    resources, startVars, running, waiter, statusCh, errCh, ret,
                    outputVars, performerVars >>

\* The steps of the per-output task k.
TaskStep(k) ==
    \/ TaskStreamOut(k)
    \/ TaskInit(k)
    \/ TaskOut(k)
    \/ TaskResult(k)
    \/ PerformerStreamOut(k)
    \/ PerformerInit(k)
    \/ PerformerOut(k)
    \/ PerformerRelease(k)

Next ==
    \/ StartInit
    \/ StartIn
    \/ StartCreate
    \/ StartStreamIn
    \/ StartRun
    \/ AttachBegin
    \/ AttachLookup
    \/ AttachProcess
    \/ WaitForRunToEnd
    \/ WaiterReturns
    \/ SelectStatus
    \/ SelectErr
    \/ SelectAbort
    \/ PerformOutputs
    \/ \E k \in DOMAIN tasks : TaskStreamOut(k)
    \/ \E k \in DOMAIN tasks : TaskInit(k)
    \/ \E k \in DOMAIN tasks : TaskOut(k)
    \/ \E k \in DOMAIN tasks : TaskResult(k)
    \/ CollectErr
    \/ CollectResult
    \/ PerformerBegin
    \/ \E k \in DOMAIN tasks : PerformerStreamOut(k)
    \/ \E k \in DOMAIN tasks : PerformerInit(k)
    \/ \E k \in DOMAIN tasks : PerformerOut(k)
    \/ \E k \in DOMAIN tasks : PerformerRelease(k)
    \/ PerformerCollect
    \/ ProcExit
    \/ ProcFail
    \/ Abort

Spec == Init /\ [][Next]_vars

\* ------------------------------------------- Start and the configurations

\* A build without outputs is handed to Start, with any of the submitted
\* configurations and with inputs that may carry configurations.
StartBegin ==
    /\ submitted \in [Inputs : ConfigInputLists, Outputs : {<< >>}, Config : BuildConfigs]
    /\ pc = "Start"
    /\ container = [created |-> FALSE, rootfs |-> "", stops |-> << >>]
    /\ BuilderFresh
    /\ EmitterIdle
    /\ WriterIdle
    /\ MessageIdle
    /\ ResourceIdle
    /\ HijackIdle

\* The steps of Start, and the abort of the build.
StartNext ==
    \/ StartInit
    \/ StartIn
    \/ StartCreate
    \/ StartStreamIn
    \/ StartRun
    \/ Abort

StartSpec == StartBegin /\ [][StartNext]_vars

\* ------------------------------------------------------- websocketEmitter

\* The most events one producer emits, and the most times the consumer fails
\* the emitter (a refused dial, or a connection it accepts and then closes).
MaxEvents == 2
MaxFailures == 1

\* The most connections the emitter dials.
MaxConns == 3

\* An emitter on which each producer has some events to emit.
EmitterInit ==
    /\ BuildIdle
    /\ WriterIdle
    /\ MessageIdle
    /\ ResourceIdle
    /\ HijackIdle
    /\ NewWebSocketEmitter
    /\ todo \in [Producers -> 0..MaxEvents]

\* A write on connection c can succeed: the consumer still reads from it and
\* the emitter has not closed it.
Usable(c) == conns[c].up /\ conns[c].closes = 0

\* A producer calls EmitEvent with its next event.
EmitEvent(p) ==
    /\ ~crashed
    /\ epc[p] = "idle"
    /\ calls[p] < todo[p]
    /\ calls' = [calls EXCEPT ![p] = @ + 1]
    /\ epc' = [epc EXCEPT ![p] = "connect"]
    /\ UNCHANGED << conn, connL, conns, todo, emitRet, writing, overlap, wire,
                    failures, crashed, failedOn, buildVars, writerVars, messageVars,
                    resourceVars, hijackVars >>

\* connect: takes the lock; returns at once if e.conn is set, else goes on
\* to dial with the lock held.
Connect(p) ==
    /\ ~crashed
    /\ epc[p] = "connect"
    /\ connL = "free"
    /\ IF conn # 0
       THEN /\ epc' = [epc EXCEPT ![p] = "write"]
            /\ UNCHANGED connL
       ELSE /\ epc' = [epc EXCEPT ![p] = "dial"]
            /\ connL' = p
    /\ UNCHANGED << conn, conns, todo, calls, emitRet, writing, overlap, wire,
                    failures, crashed, failedOn, buildVars, writerVars, messageVars,
                    resourceVars, hijackVars >>

\* connect: one Dial.  On success e.conn is the new connection and connect
\* returns, releasing the lock; on failure e.conn stays nil and, after
\* time.Sleep(time.Second), the loop dials again.
Dial(p) ==
    /\ ~crashed
    /\ epc[p] = "dial"
    /\ \/ /\ Len(conns) < MaxConns
          /\ conns' = Append(conns, [up |-> TRUE, closes |-> 0])
          /\ conn' = Len(conns) + 1
          /\ connL' = "free"
          /\ epc' = [epc EXCEPT ![p] = "write"]
          /\ UNCHANGED failures
       \/ /\ failures < MaxFailures
          /\ failures' = failures + 1
          /\ UNCHANGED << conn, connL, conns, epc >>
    /\ UNCHANGED << todo, calls, emitRet, writing, overlap, wire, crashed,
                    failedOn, buildVars, writerVars, messageVars,
                    resourceVars, hijackVars >>

\* EmitEvent: e.conn.WriteJSON begins.  e.conn is read without the lock: if
\* another producer's close has set it to nil in the meantime the call
\* dereferences nil and the process panics.  (A stale read yields nil or an
\* already closed connection, which the interleavings here yield as well.)
\* overlap records that two WriteJSON calls are in progress on one connection.
WriteJSON(p) ==
    /\ ~crashed
    /\ epc[p] = "write"
    /\ IF conn = 0
       THEN /\ crashed' = TRUE
            /\ epc' = [epc EXCEPT ![p] = "panicked"]
            /\ UNCHANGED << writing, overlap >>
       ELSE /\ writing' = [writing EXCEPT ![p] = conn]
            /\ overlap' = [q \in Producers |->
                            IF q = p
                            THEN \E r \in Producers \ {p} : writing[r] = conn
                            ELSE overlap[q] \/ writing[q] = conn]
            /\ epc' = [epc EXCEPT ![p] = "writing"]
            /\ UNCHANGED crashed
    /\ UNCHANGED << conn, connL, conns, todo, calls, emitRet, wire, failures,
                    failedOn, buildVars, writerVars, messageVars,
                    resourceVars, hijackVars >>

\* What a WriteJSON of producer p can come to.  On a connection that is not
\* usable it fails.  Alone on a usable connection it writes the event.  Two
\* calls writing on one connection at the same time race on the connection's
\* write buffer: each may write its event, write frames the consumer cannot
\* read as that event, or fail.
WriteOutcomes(p) ==
    IF ~Usable(writing[p]) THEN {"error"}
    ELSE IF overlap[p] THEN {"written", "garbled", "error"}
    ELSE {"written"}

\* Mutant: EmitEvent leaves its loop after the first WriteJSON, whatever it
\* returned.
WriteJSONReturnsNoRetry(p) ==
    /\ ~crashed
    /\ epc[p] = "writing"
    /\ \E o \in WriteOutcomes(p) :
        /\ wire' = IF o = "error" THEN wire
                   ELSE Append(wire, [from |-> p, event |-> calls[p],
                                      intact |-> o = "written"])
        /\ emitRet' = [emitRet EXCEPT ![p] = Append(@, IF o = "error" THEN o ELSE "nil")]
        /\ epc' = [epc EXCEPT ![p] = "idle"]
        /\ failedOn' = [failedOn EXCEPT ![p] = 0]
    /\ writing' = [writing EXCEPT ![p] = 0]
    /\ overlap' = [overlap EXCEPT ![p] = FALSE]
    /\ UNCHANGED << conn, connL, conns, todo, calls, failures, crashed,
                    buildVars, writerVars, messageVars,
                    resourceVars, hijackVars >>

\* EmitEvent: WriteJSON returns.  err == nil breaks the loop and EmitEvent
\* returns nil; any error goes on to close.
WriteJSONReturns(p) ==
    /\ ~crashed
    /\ epc[p] = "writing"
    /\ \E o \in WriteOutcomes(p) :
        IF o = "error"
        THEN /\ epc' = [epc EXCEPT ![p] = "close"]
             /\ failedOn' = [failedOn EXCEPT ![p] = writing[p]]
             /\ UNCHANGED << wire, emitRet >>
        ELSE /\ wire' = Append(wire, [from |-> p, event |-> calls[p],
                                      intact |-> o = "written"])
             /\ emitRet' = [emitRet EXCEPT ![p] = Append(@, "nil")]
             /\ epc' = [epc EXCEPT ![p] = "idle"]
             /\ failedOn' = [failedOn EXCEPT ![p] = 0]
    /\ writing' = [writing EXCEPT ![p] = 0]
    /\ overlap' = [overlap EXCEPT ![p] = FALSE]
    /\ UNCHANGED << conn, connL, conns, todo, calls, failures, crashed,
                    buildVars, writerVars, messageVars,
                    resourceVars, hijackVars >>

\* close: under the lock, if e.conn is set, sets it to nil and closes the
\* connection it was; then time.Sleep(time.Second), and the loop starts
\* over.
Close(p) ==
    /\ ~crashed
    /\ epc[p] = "close"
    /\ connL = "free"
    /\ IF conn # 0
       THEN /\ conns' = [conns EXCEPT ![conn].closes = @ + 1]
            /\ conn' = 0
       ELSE UNCHANGED << conn, conns >>
    /\ epc' = [epc EXCEPT ![p] = "connect"]
    /\ UNCHANGED << connL, todo, calls, emitRet, writing, overlap, wire, failures,
                    crashed, failedOn, buildVars, writerVars, messageVars,
                    resourceVars, hijackVars >>

\* The consumer closes a connection it had accepted.
ConsumerCloses ==
    /\ ~crashed
    /\ failures < MaxFailures
    /\ \E c \in DOMAIN conns :
        /\ conns[c].up
        /\ conns' = [conns EXCEPT ![c].up = FALSE]
    /\ failures' = failures + 1
    /\ UNCHANGED << conn, connL, epc, todo, calls, emitRet, writing, overlap,
                    wire, crashed, failedOn, buildVars, writerVars, messageVars,
                    resourceVars, hijackVars >>

\* The steps of producer p.
ProducerStep(p) ==
    \/ EmitEvent(p)
    \/ Connect(p)
    \/ Dial(p)
    \/ WriteJSON(p)
    \/ WriteJSONReturns(p)
    \/ Close(p)

EmitterNext ==
    \/ \E p \in Producers : EmitEvent(p)
    \/ \E p \in Producers : Connect(p)
    \/ \E p \in Producers : Dial(p)
    \/ \E p \in Producers : WriteJSON(p)
    \/ \E p \in Producers : WriteJSONReturns(p)
    \/ \E p \in Producers : Close(p)
    \/ ConsumerCloses

EmitterSpec == EmitterInit /\ [][EmitterNext]_vars

\* Every producer that can take a step of its call eventually takes one (the
\* scheduler runs every task that is ready); the consumer is under no
\* obligation to fail.
EmitterFairSpec ==
    EmitterSpec /\ \A p \in Producers : WF_vars(ProducerStep(p))

\* ---------------------------------------------------------------- Message

\* The event kinds, in the order of their numeric type tags.
EventKinds ==
    << "Log", "Status", "Initialize", "Start", "Finish", "Error", "Input",
       "Output" >>

\* The events a Message can carry.
Events ==
    [kind : {"Log"}, Payload : {"", "sup", "nihongo"},
     Origin : [Type : {"input", "output", "run"}, Name : {"some-input", "stdout"}]]
    \cup [kind : {"Status"}, Status : {"started", "succeeded", "failed", "errored"}]
    \cup [kind : {"Initialize"}, BuildConfig : {"some-config", "other-config"}]
    \cup [kind : {"Start"}, Time : {1, 2}]
    \cup [kind : {"Finish"}, Time : {1, 2}, ExitStatus : 0..MaxStatus]
    \cup [kind : {"Error"}, Message : {"failed to run", "build aborted"}]
    \cup [kind : {"Input"}, Input : { SubmittedInput(n) : n \in Names }]
    \cup [kind : {"Output"}, Output : { SubmittedOutput(n, {"success"}) : n \in Names }]

\* event.EventType(): the numeric tag of the event's kind.
EventType(e) == CHOOSE n \in DOMAIN EventKinds : EventKinds[n] = e.kind

\* json.Marshal(m.Event): the JSON object of the event, one key per field.
MarshalEvent(e) ==
    CASE e.kind = "Log" ->
            [payload |-> e.Payload,
             origin |-> [type |-> e.Origin.Type, name |-> e.Origin.Name]]
      [] e.kind = "Status" -> [status |-> e.Status]
      [] e.kind = "Initialize" -> [config |-> e.BuildConfig]
      [] e.kind = "Start" -> [time |-> e.Time]
      [] e.kind = "Finish" -> [time |-> e.Time, exit_status |-> e.ExitStatus]
      [] e.kind = "Error" -> [message |-> e.Message]
      [] e.kind = "Input" -> [input |-> e.Input]
      [] e.kind = "Output" -> [output |-> e.Output]

\* json.Unmarshal(payload, &Log{}).
UnmarshalLog(payload) ==
    [kind |-> "Log", Payload |-> payload.payload,
     Origin |-> [Type |-> payload.origin.type, Name |-> payload.origin.name]]

\* json.Unmarshal(payload, &Status{}).
UnmarshalStatus(payload) == [kind |-> "Status", Status |-> payload.status]

\* Message.MarshalJSON: the envelope of the event's type tag and its JSON.
MarshalJSON(m) == [type |-> EventType(m.Event), event |-> MarshalEvent(m.Event)]

\* The Event of a Message that none was stored in.
NilEvent == [kind |-> "nil"]

\* Message.UnmarshalJSON: the switch on envelope.Type knows EventTypeLog and
\* EventTypeStatus; any other type is an error and leaves the Message as it
\* was.
UnmarshalJSON(bytes) ==
    CASE EventKinds[bytes.type] = "Log" ->
            [Event |-> UnmarshalLog(bytes.event), err |-> "nil"]
      [] EventKinds[bytes.type] = "Status" ->
            [Event |-> UnmarshalStatus(bytes.event), err |-> "nil"]
      [] OTHER -> [Event |-> NilEvent, err |-> "unknown event type"]

\* A Message to send to the consumer.
MessageInit ==
    /\ BuildIdle
    /\ EmitterIdle
    /\ WriterIdle
    /\ ResourceIdle
    /\ HijackIdle
    /\ message \in [Event : Events]
    /\ envelope = "none"
    /\ decoded = "none"
    /\ mpc = "marshal"

\* The emitter's WriteJSON encodes the Message.
Encode ==
    /\ mpc = "marshal"
    /\ envelope' = MarshalJSON(message)
    /\ mpc' = "unmarshal"
    /\ UNCHANGED << message, decoded, buildVars, emitterVars, writerVars,
                    resourceVars, hijackVars >>

\* The consumer's ReadJSON decodes what it read into a Message.
Decode ==
    /\ mpc = "unmarshal"
    /\ decoded' = UnmarshalJSON(envelope)
    /\ mpc' = "done"
    /\ UNCHANGED << message, envelope, buildVars, emitterVars, writerVars,
                    resourceVars, hijackVars >>

MessageNext ==
    \/ Encode
    \/ Decode

MessageSpec == MessageInit /\ [][MessageNext]_vars

\* ------------------------------------------------------------- log writer

\* The most codepoints in the text a process writes.
MaxRunes == 3

\* Bytes by their role in UTF-8: "a" is a one-byte codepoint, "L2", "L3" and
\* "L4" lead a codepoint of 2, 3 and 4 bytes, "C" is a continuation byte.
LeadBytes == {"a", "L2", "L3", "L4"}

\* How many bytes the codepoint that byte b leads has.
RuneLen(b) ==
    CASE b = "a" -> 1
      [] b = "L2" -> 2
      [] b = "L3" -> 3
      [] b = "L4" -> 4

\* The bytes of the codepoint that b leads.
EncodeRune(b) == [k \in 1..RuneLen(b) |-> IF k = 1 THEN b ELSE "C"]

\* The bytes of a text, given as the lead bytes of its codepoints.
RECURSIVE EncodeText(_)
EncodeText(t) ==
    IF t = << >> THEN << >>
    ELSE EncodeRune(Head(t)) \o EncodeText(Tail(t))

\* The texts a process writes.
Texts == UNION { [1..n -> LeadBytes] : n \in 0..MaxRunes }

\* The origins a writer is made with.
Origins ==
    { [type |-> "run", name |-> "stdout"],
      [type |-> "run", name |-> "stderr"],
      [type |-> "input", name |-> "some-source"] }

\* Where the last codepoint of text starts: the last byte that is not a
\* continuation byte (0 if there is none).
LastLead(text) ==
    IF \E k \in DOMAIN text : text[k] # "C"
    THEN CHOOSE k \in DOMAIN text :
            /\ text[k] # "C"
            /\ \A j \in (k + 1)..Len(text) : text[j] = "C"
    ELSE 0

\* Decoding the last codepoint of text fails: text is empty, or its last
\* codepoint lacks some of its bytes.
EndsIncomplete(text) ==
    \/ LastLead(text) = 0
    \/ Len(text) - LastLead(text) + 1 < RuneLen(text[LastLead(text)])

\* NewWriter(emitter, origin), and the bytes the process is going to write.
WriterInit ==
    /\ BuildIdle
    /\ EmitterIdle
    /\ MessageIdle
    /\ ResourceIdle
    /\ HijackIdle
    /\ origin \in Origins
    /\ pending \in { EncodeText(t) : t \in Texts }
    /\ written = << >>
    /\ nwrites = 0
    /\ dangling = << >>
    /\ logs = << >>
    /\ wstate = "open"

\* Mutant: Write looks at the new bytes only and forgets the ones held back.
WriteForgetsDangling(n) ==
    LET data == SubSeq(pending, 1, n)
    IN  /\ wstate = "open"
        /\ pending' = SubSeq(pending, n + 1, Len(pending))
        /\ written' = written \o data
        /\ nwrites' = nwrites + 1
        /\ IF EndsIncomplete(data)
           THEN /\ dangling' = data
                /\ UNCHANGED logs
           ELSE /\ dangling' = << >>
                /\ logs' = Append(logs, [Payload |-> data, Origin |-> origin])
        /\ UNCHANGED << origin, wstate, buildVars, emitterVars, messageVars,
                           resourceVars, hijackVars >>

\* Mutant: Write emits whenever it is called.
WriteEmitsAtOnce(n) ==
    LET data == SubSeq(pending, 1, n)
        text == dangling \o data
    IN  /\ wstate = "open"
        /\ pending' = SubSeq(pending, n + 1, Len(pending))
        /\ written' = written \o data
        /\ nwrites' = nwrites + 1
        /\ dangling' = << >>
        /\ logs' = Append(logs, [Payload |-> text, Origin |-> origin])
        /\ UNCHANGED << origin, wstate, buildVars, emitterVars, messageVars,
                           resourceVars, hijackVars >>

\* Mutant: Write emits the complete codepoints at once and holds back only
\* the bytes of the incomplete last one.
WriteEmitsCompleteRunes(n) ==
    LET data == SubSeq(pending, 1, n)
        text == dangling \o data
        cut == IF EndsIncomplete(text) THEN LastLead(text) - 1 ELSE Len(text)
    IN  /\ wstate = "open"
        /\ pending' = SubSeq(pending, n + 1, Len(pending))
        /\ written' = written \o data
        /\ nwrites' = nwrites + 1
        /\ dangling' = SubSeq(text, cut + 1, Len(text))
        /\ logs' = IF cut = 0 THEN logs
                   ELSE Append(logs, [Payload |-> SubSeq(text, 1, cut),
                                      Origin |-> origin])
        /\ UNCHANGED << origin, wstate, buildVars, emitterVars, messageVars,
                           resourceVars, hijackVars >>

\* Write(data), data being the next n bytes of the process: the bytes held
\* back and data are taken together; if they end in an incomplete codepoint
\* all of them are held back and nothing is emitted, else they are emitted
\* as one Log event.
Write(n) ==
    LET data == SubSeq(pending, 1, n)
        text == dangling \o data
    IN  /\ wstate = "open"
        /\ pending' = SubSeq(pending, n + 1, Len(pending))
        /\ written' = written \o data
        /\ nwrites' = nwrites + 1
        /\ IF EndsIncomplete(text)
           THEN /\ dangling' = text
                /\ UNCHANGED logs
           ELSE /\ dangling' = << >>
                /\ logs' = Append(logs, [Payload |-> text, Origin |-> origin])
        /\ UNCHANGED << origin, wstate, buildVars, emitterVars, messageVars,
                           resourceVars, hijackVars >>

\* Close: the bytes held back, if any, are emitted as they are.
WriterClose ==
    /\ wstate = "open"
    /\ wstate' = "closed"
    /\ dangling' = << >>
    /\ logs' = IF dangling = << >> THEN logs
               ELSE Append(logs, [Payload |-> dangling, Origin |-> origin])
    /\ UNCHANGED << origin, pending, written, nwrites, buildVars, emitterVars,
                    messageVars, resourceVars, hijackVars >>

WriterNext ==
    \/ \E n \in 1..Len(pending) : Write(n)
    \/ WriterClose

WriterSpec == WriterInit /\ [][WriterNext]_vars

\* ------------------------------------------------------------ resource.Out

\* What the out script prints: a version and metadata, or neither.
ScriptResponses ==
    OutResponses \cup { [version |-> NoVersion, metadata |-> NoMetadata] }

\* The outputs handed to Out: with or without a version and metadata on them.
OutArgs ==
    { [SubmittedOutput(n, on) EXCEPT !.version = v, !.metadata = m] :
        n \in Names, on \in OnSets,
        v \in {NoVersion, SubmittedVersion}, m \in {NoMetadata, "m0"} }

\* A resource of the tracker is asked to perform an output.
ResourceInit ==
    /\ BuildIdle
    /\ EmitterIdle
    /\ WriterIdle
    /\ MessageIdle
    /\ HijackIdle
    /\ outArg \in OutArgs
    /\ rpc = "streamInSource"
    /\ rabort = FALSE
    /\ script = [state |-> "none", status |-> 0, afterStop |-> FALSE,
                 resp |-> [version |-> NoVersion, metadata |-> NoMetadata]]
    /\ rwaiter = "none"
    /\ rstops = << >>
    /\ outRet = NoOutRet

\* Out returns.
OutReturns(output, err) ==
    /\ outRet' = [returned |-> TRUE, output |-> output, err |-> err]
    /\ rpc' = "done"

\* streamInSource: the source is streamed in to the resource's container.
StreamInSource ==
    /\ rpc = "streamInSource"
    /\ \E ok \in BOOLEAN :
        IF ok
        THEN rpc' = "runScript" /\ UNCHANGED outRet
        ELSE OutReturns(ZeroOutput, Err("stream in failed", ""))
    /\ UNCHANGED << outArg, rabort, script, rwaiter, rstops,
                    buildVars, emitterVars, writerVars, messageVars,
                    hijackVars >>

\* runScript: the out script is run in the resource's container, and a task
\* is spawned that waits on it.
RunScript ==
    /\ rpc = "runScript"
    /\ \E ok \in BOOLEAN :
        IF ok
        THEN /\ script' = [script EXCEPT !.state = "running"]
             /\ rwaiter' = "waiting"
             /\ rpc' = "select"
             /\ UNCHANGED outRet
        ELSE /\ OutReturns(ZeroOutput, Err("run failed", ""))
             /\ UNCHANGED << script, rwaiter >>
    /\ UNCHANGED << outArg, rabort, rstops,
                    buildVars, emitterVars, writerVars, messageVars,
                    hijackVars >>

\* The script exits with a status, having printed its response.
ScriptExit ==
    /\ script.state = "running"
    /\ \E s \in 0..MaxStatus, resp \in ScriptResponses :
        script' = [state |-> "exited", status |-> s, afterStop |-> rstops # << >>,
                   resp |-> resp]
    /\ UNCHANGED << outArg, rpc, rabort, rwaiter, rstops, outRet,
                    buildVars, emitterVars, writerVars, messageVars,
                    hijackVars >>

\* The wait on the script fails.
ScriptFail ==
    /\ script.state = "running"
    /\ script' = [script EXCEPT !.state = "failed", !.afterStop = rstops # << >>]
    /\ UNCHANGED << outArg, rpc, rabort, rwaiter, rstops, outRet,
                    buildVars, emitterVars, writerVars, messageVars,
                    hijackVars >>

\* The spawned task: process.Wait() returns, and the status or the error is
\* sent on its channel (capacity 1, so the send never blocks).
ScriptWaiterReturns ==
    /\ rwaiter = "waiting"
    /\ script.state \in {"exited", "failed"}
    /\ rwaiter' = IF script.state = "failed" THEN "sent error" ELSE "sent status"
    /\ UNCHANGED << outArg, rpc, rabort, script, rstops, outRet,
                    buildVars, emitterVars, writerVars, messageVars,
                    hijackVars >>

\* select, case status := <-statusCh: a status that is not 0 is an error;
\* else the response is decoded and Out returns the output with it.
ScriptSelectStatus ==
    /\ rpc = "select"
    /\ rwaiter = "sent status"
    /\ rwaiter' = "done"
    /\ IF script.status # 0
       THEN OutReturns(ZeroOutput, Err("script failed", ""))
       ELSE OutReturns(ResourceOut(outArg, script.resp), NoError)
    /\ UNCHANGED << outArg, rabort, script, rstops,
                    buildVars, emitterVars, writerVars, messageVars,
                    hijackVars >>

\* select, case err := <-errCh.
ScriptSelectErr ==
    /\ rpc = "select"
    /\ rwaiter = "sent error"
    /\ rwaiter' = "done"
    /\ OutReturns(ZeroOutput, Err("wait failed", ""))
    /\ UNCHANGED << outArg, rabort, script, rstops,
                    buildVars, emitterVars, writerVars, messageVars,
                    hijackVars >>

\* Mutant: the abort case returns ErrAborted and leaves the container alone.
ScriptSelectAbortNoStop ==
    /\ rpc = "select"
    /\ rabort
    /\ OutReturns(ZeroOutput, ErrAborted)
    /\ UNCHANGED << outArg, rabort, script, rwaiter, rstops,
                    buildVars, emitterVars, writerVars, messageVars,
                    hijackVars >>

\* select, case <-abort: container.Stop(false), ErrAborted.
ScriptSelectAbort ==
    /\ rpc = "select"
    /\ rabort
    /\ rstops' = Append(rstops, FALSE)
    /\ OutReturns(ZeroOutput, ErrAborted)
    /\ UNCHANGED << outArg, rabort, script, rwaiter,
                    buildVars, emitterVars, writerVars, messageVars,
                    hijackVars >>

\* The abort channel of the resource is closed, before Out has returned.
ResourceAbort ==
    /\ ~rabort
    /\ rpc \in {"streamInSource", "runScript", "select"}
    /\ rabort' = TRUE
    /\ UNCHANGED << outArg, rpc, script, rwaiter, rstops, outRet,
                    buildVars, emitterVars, writerVars, messageVars,
                    hijackVars >>

ResourceNext ==
    \/ StreamInSource
    \/ RunScript
    \/ ScriptExit
    \/ ScriptFail
    \/ ScriptWaiterReturns
    \/ ScriptSelectStatus
    \/ ScriptSelectErr
    \/ ScriptSelectAbort
    \/ ResourceAbort

ResourceSpec == ResourceInit /\ [][ResourceNext]_vars

\* ----------------------------------------------------------------- Hijack

\* The handles of containers, and the process specs and IOs a caller hands
\* to Hijack.
Handles == {"some-build-guid", "other-guid"}
ProcessSpecs == {"/bin/sh", "/bin/bash"}
ProcessIOs == {"io-1", "io-2"}

\* Hijack is called with the handle of a running build, a spec and an IO,
\* while the warden server has some containers.
HijackInit ==
    /\ BuildIdle
    /\ EmitterIdle
    /\ WriterIdle
    /\ MessageIdle
    /\ ResourceIdle
    /\ hijackArg \in [handle : Handles, spec : ProcessSpecs, io : ProcessIOs]
    /\ handles \in SUBSET Handles
    /\ hpc = "Lookup"
    /\ ranCalls = << >>
    /\ hijackRet = NoHijackRet

\* Hijack returns.
HijackReturns(process, err) ==
    /\ hijackRet' = [returned |-> TRUE, process |-> process, err |-> err]
    /\ hpc' = "done"

\* wardenClient.Lookup(running.ContainerHandle): the container, or an error
\* when the server has none with that handle or cannot be asked.
HijackLookup ==
    /\ hpc = "Lookup"
    /\ \E ok \in BOOLEAN :
        IF ok /\ hijackArg.handle \in handles
        THEN hpc' = "Run" /\ UNCHANGED hijackRet
        ELSE HijackReturns(NoProcess, Err("lookup failed", ""))
    /\ UNCHANGED << hijackArg, handles, ranCalls,
                    buildVars, emitterVars, writerVars, messageVars, resourceVars >>

\* Mutant: the process is run without the caller's IO.
HijackRunDropsIO ==
    /\ hpc = "Run"
    /\ LET call == [handle |-> hijackArg.handle, spec |-> hijackArg.spec, io |-> ""]
       IN  /\ ranCalls' = Append(ranCalls, call)
           /\ \E ok \in BOOLEAN :
                IF ok
                THEN HijackReturns(call, NoError)
                ELSE HijackReturns(NoProcess, Err("run failed", ""))
    /\ UNCHANGED << hijackArg, handles,
                    buildVars, emitterVars, writerVars, messageVars, resourceVars >>

\* return container.Run(spec, io): the process of that run, or its error.
HijackRun ==
    /\ hpc = "Run"
    /\ LET call == [handle |-> hijackArg.handle, spec |-> hijackArg.spec,
                    io |-> hijackArg.io]
       IN  /\ ranCalls' = Append(ranCalls, call)
           /\ \E ok \in BOOLEAN :
                IF ok
                THEN HijackReturns(call, NoError)
                ELSE HijackReturns(NoProcess, Err("run failed", ""))
    /\ UNCHANGED << hijackArg, handles,
                    buildVars, emitterVars, writerVars, messageVars, resourceVars >>

HijackNext ==
    \/ HijackLookup
    \/ HijackRun

HijackSpec == HijackInit /\ [][HijackNext]_vars

\* ================================================================== claims

\* What the claims speak of.
StartReturned == ret.phase = "Start" /\ pc \in {"Started", "Done"}
AttachReturned == ret.phase = "Attach"
CompleteReturned == ret.phase = "Complete"
\* Attach got as far as waitForRunToEnd.
AttachWaited == waiter # "none"
\* The build process ended before any Stop of the build container.
ExitedBeforeStop == proc.state \in {"exited", "failed"} /\ ~proc.afterStop
\* The per-output tasks of performOutputs, and those whose output failed or
\* was performed.  Complete returns only after each has sent on errs.
BuilderTasks == { k \in DOMAIN tasks : tasks[k].of = "builder" }
OutCalled(k) == tasks[k].pc \in {"Result", "done"} /\ tasks[k].resource # 0
TaskFailed(k) == tasks[k].pc \in {"Result", "done"} /\ tasks[k].computed = ZeroOutput
PerformedOutputs == { tasks[k].computed : k \in BuilderTasks }
\* Whether an output with the conditions on is to be performed after status.
OnMatches(on, status) == IF status = 0 THEN "success" \in on ELSE "failure" \in on

\* C1: once Start has created the build container, a failing Start (stream
\* in, run) or a failing Attach (wait error, abort) has called Stop(false) on
\* it by the time it returns.
C1_StoppedOnAbnormalExit ==
    ( /\ container.created
      /\ \/ StartReturned /\ ret.err # NoError
         \/ AttachReturned /\ AttachWaited /\ ret.err # NoError )
    => /\ container.stops # << >>
       /\ \A j \in DOMAIN container.stops : container.stops[j] = FALSE

\* C2: a resource that tracker.Init returned is never released twice; an
\* input's resource has been released exactly once when Start has returned,
\* on every path, and an output's resource exactly once when its task has
\* finished, on every path.
C2_ReleasedExactlyOnce ==
    \A r \in DOMAIN resources :
        /\ resources[r].releases <= 1
        /\ resources[r].owner = "input" =>
              ( resources[r].releases = 1 <=> pc \notin {"Start", "StartIn", "StartStreamIn"} )
        /\ resources[r].owner = "output" =>
              \E k \in DOMAIN tasks :
                  /\ tasks[k].resource = r
                  /\ \A l \in DOMAIN tasks : tasks[l].resource = r => l = k
                  /\ resources[r].releases = 1 <=> tasks[k].pc = "done"

\* C2 witness: Complete has failed, after its tasks finished, for a build
\* whose inputs and outputs both obtained resources.
C2_Witness ==
    /\ CompleteReturned
    /\ ret.err # NoError
    /\ \A k \in DOMAIN tasks : tasks[k].pc = "done"
    /\ \E r \in DOMAIN resources : resources[r].owner = "input" /\ resources[r].releases = 1
    /\ \E r \in DOMAIN resources : resources[r].owner = "output" /\ resources[r].releases = 1

\* C3: abort while Attach waits on a process that does not exit before its
\* container is stopped: Attach returns ErrAborted and has called Stop(false)
\* on the build container exactly once.
C3_AbortWhileWaiting ==
    ( AttachReturned /\ AttachWaited /\ ~ExitedBeforeStop )
    => /\ abort
       /\ ret.err = ErrAborted
       /\ container.stops = << FALSE >>

\* C3 witness: Attach returned ErrAborted and the process ended only after
\* the Stop.
C3_Witness ==
    /\ AttachReturned
    /\ ret.err = ErrAborted
    /\ proc.state = "exited"
    /\ proc.afterStop

\* C4: when Attach returns ErrAborted, the Error event "running failed:
\* build aborted" has been emitted.
C4_ErrorEventOnAbort ==
    ( AttachReturned /\ ret.err = ErrAborted )
    => \E j \in DOMAIN events :
          /\ events[j].type = "Error"
          /\ events[j].message = "running failed: build aborted"

\* C5 as claimed: abort fired before Attach returned from its wait, so Attach
\* returned ErrAborted, with at most one Stop.
C5_AbortAlwaysWins ==
    ( AttachReturned /\ AttachWaited /\ abort )
    => /\ ret.err = ErrAborted
       /\ Len(container.stops) <= 1

\* C5 as amended: abort fired before Attach returned; Attach returned
\* ErrAborted, or the failure of the lookup or of the attach, or, once the
\* waiting task had delivered it, the result of the process; Stop(false) was
\* called once if Attach returned ErrAborted and never otherwise.
C5_AbortOrDeliveredResult ==
    ( AttachReturned /\ abort )
    => /\ \/ ret.err = ErrAborted
          \/ ~AttachWaited /\ ret.err \in {Err("lookup failed", ""), Err("attach failed", "")}
          \/ waiter = "done" /\ ret.err \in {NoError, Err("wait failed", "")}
       /\ container.stops = IF ret.err = ErrAborted THEN << FALSE >> ELSE << >>

\* C5 witness: abort had fired, and the select took the exit status.
C5_Witness ==
    /\ AttachReturned
    /\ abort
    /\ AttachWaited
    /\ ret.err = NoError
    /\ container.stops = << >>

\* C6: the outputs that are performed are those whose conditions match the
\* exit status.
C6_PerformedMatchExitStatus ==
    \A k \in BuilderTasks : OnMatches(tasks[k].output.on, proc.status)

LifecycleEvents ==
    SelectSeq(events, LAMBDA e : e.type \in {"Initialize", "Start", "Finish"})

Delivered(p) == SelectSeq(wire, LAMBDA w : w.from = p /\ w.intact)

\* The emitter has dialed as many connections as the bound allows.
ConnsExhausted == Len(conns) = MaxConns

\* C12: EmitEvent returns only after a WriteJSON of its event has returned
\* nil, and what it returns is nil: every call that has returned has its
\* event written, and a call whose writes have all failed so far has not
\* returned.
C12_ReturnsNilAfterWrite ==
    \A p \in Producers :
        /\ \A k \in DOMAIN emitRet[p] :
            /\ emitRet[p][k] = "nil"
            /\ \E j \in DOMAIN wire : wire[j].from = p /\ wire[j].event = k
        /\ epc[p] = "idle" <=> Len(emitRet[p]) = calls[p]

\* C12: the only producer's call has returned after a write of it failed, the
\* emitter closed the connection and wrote the event on another one.
C12_Witness ==
    /\ todo["stderr"] = 0
    /\ Len(emitRet["stdout"]) >= 1
    /\ \E c \in DOMAIN conns : conns[c].closes = 1
    /\ Len(wire) >= 1

\* C13: under a consumer that fails the emitter only finitely often, every
\* EmitEvent call returns (as long as the bound on connections is not
\* reached).
C13_EveryCallReturns ==
    \A p \in Producers :
        (epc[p] # "idle") ~> (epc[p] = "idle" \/ ConnsExhausted)

\* C14: the events of one producer reach the consumer in call order and none
\* is skipped: what the consumer has read of a producer is its events 1, 2,
\* ..., and holds the event of every call that has returned.
C14_CallOrder ==
    \A p \in Producers :
        /\ \A k \in DOMAIN Delivered(p) : Delivered(p)[k].event = k
        /\ Len(Delivered(p)) >= Len(emitRet[p])

\* C15: no two WriteJSON calls are in progress on one connection at the same
\* time.
C15_WritesMutuallyExclusive ==
    \A p, q \in Producers :
        p # q /\ writing[p] # 0 => writing[p] # writing[q]

\* ------------------------------------------------------------ the envelope

\* C16: for every event kind, decoding the envelope that encoding a Message
\* gives yields no error and a Message with an equal event.
C16_RoundTrip ==
    mpc = "done" => decoded.err = "nil" /\ decoded.Event = message.Event

\* ---------------------------------------------------------- the log writer

\* The bytes b are complete codepoints, one after the other.
RECURSIVE ValidUTF8(_)
ValidUTF8(b) ==
    \/ b = << >>
    \/ /\ b[1] \in LeadBytes
       /\ Len(b) >= RuneLen(b[1])
       /\ \A k \in 2..RuneLen(b[1]) : b[k] = "C"
       /\ ValidUTF8(SubSeq(b, RuneLen(b[1]) + 1, Len(b)))

\* The payloads of the events l, one after the other.
RECURSIVE Payloads(_)
Payloads(l) ==
    IF l = << >> THEN << >> ELSE Head(l).Payload \o Payloads(Tail(l))

C18_BytesPreserved ==
    /\ Payloads(logs) \o dangling = written
    /\ wstate = "closed" => dangling = << >>

\* C18: a writer was closed after several writes with a codepoint split
\* between them, and emitted several events.
C18_Witness ==
    /\ wstate = "closed"
    /\ nwrites >= 3
    /\ Len(logs) >= 2
    /\ Len(written) > nwrites
    /\ pending = << >>

\* C19: a Write after which the bytes accumulated (those held back and the
\* new ones) end in an incomplete codepoint emits nothing; any other Write
\* emits exactly one event, whose payload is all the accumulated bytes.
C19_NothingUntilComplete ==
    [][nwrites' = nwrites + 1 =>
        LET text == dangling \o SubSeq(written', Len(written) + 1, Len(written'))
        IN  IF ValidUTF8(text)
            THEN logs' = Append(logs, [Payload |-> text, Origin |-> origin])
            ELSE logs' = logs]_vars

\* C19: the first write ended inside a codepoint that a complete one
\* preceded, and nothing was emitted; the second write completed it and one
\* event with all four bytes was emitted.
C19_Witness ==
    /\ nwrites = 2
    /\ dangling = << >>
    /\ logs = << [Payload |-> << "a", "L3", "C", "C" >>, Origin |-> origin] >>

\* C20: after every Write the bytes held back are only those of an incomplete
\* last codepoint: at most 3, a lead byte and continuation bytes, fewer than
\* the codepoint has.
C20_HoldsBackOnlyPartial ==
    wstate = "open" =>
        /\ Len(dangling) <= 3
        /\ \/ dangling = << >>
           \/ /\ dangling[1] \in LeadBytes
              /\ \A k \in 2..Len(dangling) : dangling[k] = "C"
              /\ Len(dangling) < RuneLen(dangling[1])

\* PerformOutputs, of the builder (through Complete) or of the
\* parallelPerformer, has returned.
PerformReturned == ret.phase \in {"Complete", "PerformOutputs"}

\* C21: the collector keeps the first failure it receives (the channel hands
\* the failures over in the order they occurred), a later failure does not
\* replace it, that failure is the error returned, and the list returned
\* with an error is empty.
C21_FirstFailureReturned ==
    [][ /\ outputErr # NoError => outputErr' = outputErr
        /\ ( ~PerformReturned /\ PerformReturned' /\ ret'.err # NoError )
              => ret'.err = outputErr' /\ ret'.outputs = << >> ]_vars

\* C22: when PerformOutputs has returned, every per-output task has finished
\* and every resource a task obtained from the tracker has been released.
C22_QuiescentOnReturn ==
    PerformReturned =>
        \A k \in DOMAIN tasks :
            /\ tasks[k].pc = "done"
            /\ tasks[k].resource # 0 => resources[tasks[k].resource].releases = 1

\* Start has fetched every input, so build.Config is the merged configuration.
FetchedAll == i > Len(build.Inputs)
\* The names of the inputs Start has fetched.
FetchedNames == { build.Inputs[k].name : k \in 1..(i - 1) }
\* The configurations the fetched inputs carried, in the order of the fetches.
FetchedConfigs == [k \in 1..(i - 1) |-> SourceConfig(submitted.Inputs[k].source)]
ErrorEmitted(msg) ==
    \E j \in DOMAIN events : events[j].type = "Error" /\ events[j].message = msg

\* C23: a build container is never created without an image; when the
\* merged configuration has no image, Start has returned ErrNoImageSpecified
\* and emitted the Error event; and when the submitted configuration had no
\* image, the container is created with the image of a fetched input.
C23_NoImageSpecified ==
    /\ container.created => container.rootfs # ""
    /\ ( StartReturned /\ FetchedAll /\ build.Config.image = "" )
          => /\ ret.err = ErrNoImageSpecified
             /\ ErrorEmitted("failed to create container: no image specified")
    /\ ( container.created /\ submitted.Config.image = "" )
          => \E k \in DOMAIN FetchedConfigs : container.rootfs = FetchedConfigs[k].image

\* The values the fetched configurations offer for a field that is set in them.
FetchedImages ==
    { FetchedConfigs[k].image : k \in DOMAIN FetchedConfigs } \ {""}
FetchedInputs ==
    { FetchedConfigs[k].inputs : k \in DOMAIN FetchedConfigs } \ {{}}

\* C24: whatever inputs Start has fetched, a field set in the submitted
\* configuration has the submitted value, a field not set there has a value
\* a fetched configuration sets (and none only if none sets it), and the
\* params are the union of the submitted and the fetched params, with the
\* submitted value under every submitted key.
C24_MergeUnderBuild ==
    LET c == build.Config
        s == submitted.Config
    IN  /\ c.image = IF s.image # "" THEN s.image
                     ELSE IF FetchedImages = {} THEN "" ELSE c.image
        /\ ( s.image = "" /\ FetchedImages # {} ) => c.image \in FetchedImages
        /\ c.inputs = IF s.inputs # {} THEN s.inputs
                      ELSE IF FetchedInputs = {} THEN {} ELSE c.inputs
        /\ ( s.inputs = {} /\ FetchedInputs # {} ) => c.inputs \in FetchedInputs
        /\ DOMAIN c.params =
              DOMAIN s.params \cup
              UNION { DOMAIN FetchedConfigs[k].params : k \in DOMAIN FetchedConfigs }
        /\ \A key \in DOMAIN s.params : c.params[key] = s.params[key]
        /\ \A key \in DOMAIN c.params \ DOMAIN s.params :
              \E k \in DOMAIN FetchedConfigs :
                  /\ key \in DOMAIN FetchedConfigs[k].params
                  /\ c.params[key] = FetchedConfigs[k].params[key]

\* C24 witness: Start has succeeded for a build submitted without an image
\* and with the param FOO, after fetching an input whose configuration sets
\* FOO and CONFIG_ONLY and an input whose configuration names an image.
C24_Witness ==
    /\ StartReturned
    /\ ret.err = NoError
    /\ i = 3
    /\ submitted.Config.image = ""
    /\ build.Config.image = "build-config-image"
    /\ "FOO" \in DOMAIN submitted.Config.params
    /\ \E k \in DOMAIN FetchedConfigs : "FOO" \in DOMAIN FetchedConfigs[k].params
    /\ build.Config.params["FOO"] = "bar"
    /\ build.Config.params["CONFIG_ONLY"] = "build-config"

\* The explicit inputs of the merged configuration that are not among the
\* fetched inputs.
UnsatisfiedInputs == build.Config.inputs \ FetchedNames

\* C25: when the merged configuration names an explicit input that was not
\* fetched, Start has not run the build process and has returned
\* UnsatisfiedInputError with such a name, unless it had failed before
\* (no image, the creation of the container, a stream in).
C25_UnsatisfiedInput ==
    ( StartReturned /\ FetchedAll /\ UnsatisfiedInputs # {} )
    => /\ proc.state = "none"
       /\ ret.err \in { UnsatisfiedInputError(n) : n \in UnsatisfiedInputs }
                      \cup { ErrNoImageSpecified, Err("create failed", ""),
                             Err("stream in failed", "") }

\* C26: when Attach has returned without an error, what it returned carries
\* the exit status of the process, whatever it is, beside the build and the
\* container of the running build, and no "exit status N" failure.
C26_ExitedBuild ==
    ( AttachReturned /\ ret.err = NoError )
    => /\ proc.state = "exited"
       /\ ret.status = proc.status
       /\ ~ret.exitErr
       /\ pc # "Done"

\* C27: after a successful Start the build has the submitted inputs, in the
\* submitted order, each with its submitted name, type, source and params
\* and with the version and the metadata of one response of its fetch.
C27_UpdatedInputs ==
    ( StartReturned /\ ret.err = NoError )
    => /\ Len(build.Inputs) = Len(submitted.Inputs)
       /\ \A k \in DOMAIN build.Inputs :
            /\ build.Inputs[k].name = submitted.Inputs[k].name
            /\ build.Inputs[k].type = submitted.Inputs[k].type
            /\ build.Inputs[k].source = submitted.Inputs[k].source
            /\ build.Inputs[k].params = submitted.Inputs[k].params
            /\ [version |-> build.Inputs[k].version,
                metadata |-> build.Inputs[k].metadata] \in InResponses

\* C27 witness: Start has succeeded for two inputs from different sources
\* whose fetches answered different versions.
C27_Witness ==
    /\ StartReturned
    /\ ret.err = NoError
    /\ Len(build.Inputs) = 2
    /\ build.Inputs[1].source # build.Inputs[2].source
    /\ build.Inputs[1].version # build.Inputs[2].version

\* C28: when Start has returned because a fetch failed, it has returned the
\* error of that fetch (ErrAborted only after abort fired), every resource
\* the tracker handed out has been released once, no fetch is in flight,
\* and no build container has been asked for or created.
C28_FetchFailure ==
    ( StartReturned /\ ~FetchedAll )
    => /\ ret.err \in {Err("init failed", ""), Err("in failed", ""), ErrAborted}
       /\ ret.err = ErrAborted => abort
       /\ \A r \in DOMAIN resources : resources[r].releases = 1
       /\ deferred = << >>
       /\ pc = "Done"
       /\ events = << >>
       /\ ~container.created

\* C28 witness: the fetch of the second input failed with ErrAborted after
\* the first input had been fetched, and both resources are released.
C28_Witness ==
    /\ StartReturned
    /\ i = 2
    /\ Len(build.Inputs) = 2
    /\ ret.err = ErrAborted
    /\ Len(resources) = 2
    /\ \A r \in DOMAIN resources : resources[r].releases = 1

\* C29: when Out has returned without an error, the output it returned has
\* the version and the metadata of the script's response, also where the
\* response has none and the output handed in had some, and every other
\* field as it was handed in.
C29_OutSupersedes ==
    ( outRet.returned /\ outRet.err = NoError )
    => /\ outRet.output.version = script.resp.version
       /\ outRet.output.metadata = script.resp.metadata
       /\ outRet.output.name = outArg.name
       /\ outRet.output.type = outArg.type
       /\ outRet.output.source = outArg.source
       /\ outRet.output.params = outArg.params
       /\ outRet.output.on = outArg.on

\* C29 witness: Out has succeeded for an output handed in with a version and
\* metadata, on a response that has neither.
C29_Witness ==
    /\ outRet.returned
    /\ outRet.err = NoError
    /\ outArg.version = SubmittedVersion
    /\ outArg.metadata = "m0"
    /\ script.resp = [version |-> NoVersion, metadata |-> NoMetadata]
    /\ outRet.output.version = NoVersion

\* The script ended on its own, before any Stop of the resource's container.
ScriptEndedBeforeStop == script.state \in {"exited", "failed"} /\ ~script.afterStop

\* C30: abort is signalled before Out returns and the script, once run, does
\* not end before its container is stopped: Out has called Stop(false) on
\* the resource's container exactly once and has not returned success.
C30_AbortStopsResource ==
    ( outRet.returned /\ rabort /\ rwaiter # "none" /\ ~ScriptEndedBeforeStop )
    => /\ rstops = << FALSE >>
       /\ outRet.err = ErrAborted

\* C30 witness: Out has returned ErrAborted while the script was still
\* running, and the script ended after the Stop.
C30_Witness ==
    /\ outRet.returned
    /\ outRet.err = ErrAborted
    /\ rstops = << FALSE >>
    /\ script.state = "exited"
    /\ script.afterStop

\* C31: Hijack runs at most one process, in the container with the handle it
\* was given and that the server has, with the spec and the IO it was given;
\* when the container cannot be found it has returned an error and run
\* nothing; else it has run one process and returned it, or the run's error.
C31_HijackRunsOnce ==
    /\ Len(ranCalls) <= 1
    /\ \A j \in DOMAIN ranCalls :
          /\ ranCalls[j] = hijackArg
          /\ ranCalls[j].handle \in handles
    /\ hijackRet.returned =>
          IF hijackArg.handle \notin handles \/ hijackRet.err = Err("lookup failed", "")
          THEN /\ hijackRet.err = Err("lookup failed", "")
               /\ hijackRet.process = NoProcess
               /\ ranCalls = << >>
          ELSE /\ Len(ranCalls) = 1
               /\ \/ hijackRet.err = NoError /\ hijackRet.process = ranCalls[1]
                  \/ hijackRet.err = Err("run failed", "") /\ hijackRet.process = NoProcess

\* C31 witness: Hijack has returned the process it ran in the container it
\* looked up.
C31_Witness ==
    /\ hijackRet.returned
    /\ hijackRet.err = NoError
    /\ hijackRet.process = hijackArg
    /\ ranCalls = << hijackArg >>
    /\ handles = Handles

\* Producer p has begun the attempt that follows a failed write.
Retrying(p) == failedOn[p] # 0 /\ epc[p] \in {"writing", "panicked"}

\* C32: no connection is closed twice; and when a producer makes the attempt
\* that follows a failed write, the connection the write failed on has been
\* closed and the attempt is on a connection dialed after it.
C32_RetryOnNewConnection ==
    /\ \A c \in DOMAIN conns : conns[c].closes <= 1
    /\ \A p \in Producers :
          Retrying(p) =>
              /\ conns[failedOn[p]].closes = 1
              /\ epc[p] = "writing"
              /\ writing[p] > failedOn[p]

\* C36: no producer has written on a nil connection reference, and no
\* producer is writing on a connection that a close has already closed.
C36_NoWriteOnNilOrClosed ==
    /\ ~crashed
    /\ \A p \in Producers :
          epc[p] = "writing" => conns[writing[p]].closes = 0

\* The terminal events of the output called name: its Output event, or the
\* Error event of its failure.
TerminalEvents(name) ==
    { j \in DOMAIN events :
        \/ events[j].type = "Output" /\ events[j].output.name = name
        \/ events[j].type = "Error" /\ events[j].of = name }

\* C33: every per-output task of PerformOutputs that has sent its result has
\* emitted exactly one terminal event for its output: the Output event with
\* the updated output if it performed it, the Error event if it failed.
C33_OneTerminalEvent ==
    \A k \in DOMAIN tasks :
        ( tasks[k].of = "parallelPerformer" /\ tasks[k].pc \in {"Release", "done"} )
        => /\ Cardinality(TerminalEvents(tasks[k].output.name)) = 1
           /\ \A j \in TerminalEvents(tasks[k].output.name) :
                IF tasks[k].computed # ZeroOutput
                THEN events[j] = [type |-> "Output", output |-> tasks[k].computed]
                ELSE events[j].type = "Error"

\* The resources the tracker handed to Start, one per fetched input, in the
\* order of the inputs.
InputResources == { r \in DOMAIN resources : resources[r].owner = "input" }

\* C34: the resource of an input is released only when Start returns, so
\* after every StreamIn Start makes has returned (on success, after the
\* StreamIn of that very input), and once Start has returned, on whatever
\* path, it has been released.
C34_ReleasedAfterStreamIn ==
    \A r \in InputResources :
        /\ resources[r].releases >= 1 => pc \notin {"Start", "StartIn", "StartStreamIn"}
        /\ ( resources[r].releases >= 1 /\ ret.phase = "Start" /\ ret.err = NoError )
              => build.Inputs[r].name \in streamed
        /\ ( resources[r].releases >= 1 /\ ret.phase = "Start" /\ ret.err # NoError )
              => streamed \subseteq tarStreams
        /\ StartReturned => resources[r].releases = 1

\* C34 witness: Start has failed to run the process after streaming in two
\* inputs, and the resources of both are released.
C34_Witness ==
    /\ StartReturned
    /\ ret.err = Err("run failed", "")
    /\ Cardinality(streamed) = 2
    /\ Cardinality(InputResources) = 2
    /\ \A r \in InputResources : resources[r].releases = 1

\* C35: when Attach has returned because the lookup of the container failed,
\* it has emitted an Error event and has not waited on any process.
C35_LookupFailure ==
    ( AttachReturned /\ ret.err = Err("lookup failed", "") )
    => /\ \E j \in DOMAIN events : events[j].type = "Error"
       /\ waiter = "none"
       /\ running.Container = FALSE

\* C37: the emitter of a build is never closed twice; it is closed when
\* Start or Attach has returned without a build for the next phase (an
\* error, or Attach's "exit status N") and when Complete has returned, and
\* it is open after a successful Start or Attach.
C37_EmitterClosedOnce ==
    /\ closes <= 1
    /\ StartReturned => closes = IF ret.err # NoError THEN 1 ELSE 0
    /\ AttachReturned => closes = IF ret.err # NoError \/ ret.exitErr THEN 1 ELSE 0
    /\ CompleteReturned => closes = 1

\* C38: once process.Wait has returned, the task that waits on the process
\* can send the status or the error and end, wherever Attach is, so also
\* after Attach has returned; the channels never hold more than they can.
C38_WaiterNeverBlocks ==
    /\ ( waiter = "waiting" /\ proc.state \in {"exited", "failed"} )
          => ENABLED WaiterReturns
    /\ Len(statusCh) <= WaitChanCap
    /\ Len(errCh) <= WaitChanCap

\* C38 witness: Attach returned ErrAborted, the process ended afterwards, and
\* the waiting task has sent the status nobody will read and has ended.
C38_Witness ==
    /\ AttachReturned
    /\ ret.err = ErrAborted
    /\ proc.afterStop
    /\ waiter = "done"
    /\ Len(statusCh) = 1

\* The per-output tasks that have still to send their error.
ErrPending == { k \in DOMAIN tasks : tasks[k].pc \in {"StreamOut", "Init", "Out"} }

\* C39: a per-output task that has not finished can always take its next
\* step, so no send of an error or of a result waits forever, also after the
\* collector has returned; no channel holds more than its capacity; and the
\* errors (and then the results) received, sent and still to be sent are
\* one per output, so the collector never waits for a value nobody sends.
C39_NoTaskBlocks ==
    /\ \A k \in DOMAIN tasks : tasks[k].pc # "done" => ENABLED TaskStep(k)
    /\ Len(errs) <= ChanCap /\ Len(results) <= ChanCap /\ Len(errResults) <= ChanCap
    /\ pc = "CollectErrs" =>
          received + Len(errs) + Cardinality(ErrPending) = Len(build.Outputs)
    /\ pc = "PerformerCollect" =>
          received + Len(errResults) + Cardinality(ErrPending) = Len(build.Outputs)
    /\ pc = "CollectResults" =>
          received + Len(results)
            + Cardinality({ k \in DOMAIN tasks : tasks[k].pc = "Result" })
          = Len(build.Outputs)

\* C39 witness: Complete returned early with the error of one output, and
\* both tasks have finished all the same, leaving results nobody reads.
C39_Witness ==
    /\ CompleteReturned
    /\ ret.err # NoError
    /\ Len(tasks) = 2
    /\ \A k \in DOMAIN tasks : tasks[k].pc = "done"
    /\ Len(results) = 2

\* C40: the only step that calls Stop on the build container is the abort
\* case of Attach's select: it is taken with the abort signal fired, adds one
\* Stop(false) and returns ErrAborted; the steps that take the exit status or
\* the error of the wait leave the container's stops alone.
C40_StopOnlyOnAbort ==
    [][ container.stops' # container.stops
          => /\ pc = "AttachSelect"
             /\ abort
             /\ container.stops' = Append(container.stops, FALSE)
             /\ ret'.phase = "Attach"
             /\ ret'.err = ErrAborted ]_vars

\* C40 witness: abort had fired, the select took the error of the wait, and
\* Attach returned it without a Stop on the container.
C40_Witness ==
    /\ AttachReturned
    /\ AttachWaited
    /\ abort
    /\ ret.err = Err("wait failed", "")
    /\ container.stops = << >>
====
